---- MODULE Spec2Model ----
(***************************************************************************)
(* Scheduled Task Engine of the Nova bot (quark_bot): the scheduled        *)
(* prompts and scheduled payments wizards, their stores, the owner         *)
(* actions on stored records and the cron runner that fires them.          *)
(*                                                                         *)
(* Option<T> values are sets: {} is None and {v} is Some(v).               *)
(* A sled tree is a function whose DOMAIN is the set of keys present.      *)
(* The Schedule Store holds the records of the users of the run, in        *)
(* `scheduled`, and the records of other creators, which `others` counts   *)
(* per kind: ids 1..active are active, the next `inactive` ids are not.    *)
(* A run leaves them as they are, or adds one through other_confirm.       *)
(***************************************************************************)
EXTENDS Integers, Sequences, FiniteSets, TLC

VARIABLES now, others, calc, boot, scheduled, pending, timers, tasks, handler, executions, ev

vars == <<now, others, calc, boot, scheduled, pending, timers, tasks, handler, executions, ev>>

-----------------------------------------------------------------------------
(* Bounds of the model *)

\* records a run may create through Confirm, per kind
MaxCreated == 1
\* clock horizon, in days after the epoch of the model
MaxDays == 1
\* timer jobs alive at once in the timer facility
MaxTimers == 2
\* occurrences the calculator is asked for after the first
MaxOccurrences == 4
\* entries of a schedule tree that is enumerated
MaxEntries == 3

-----------------------------------------------------------------------------
(* Program constants *)

\* finalize_and_register: per-group cap of active scheduled prompts
PROMPT_CAP == 10
\* finalize_and_register_payment: per-group cap of active scheduled payments
PAYMENT_CAP == 50
\* decimals of APT (handle_message_scheduled_payments, AwaitingToken)
APT_DECIMALS == 8
\* seconds of a day, an hour, a minute (chrono)
DAY == 86400
HOUR == 3600
MINUTE == 60
\* the lease a firing takes on a record
LEASE == 120

-----------------------------------------------------------------------------
(* Option and small helpers *)

None == {}
Some(v) == {v}
unwrap(o) == CHOOSE v \in o : TRUE
unwrap_or(o, d) == IF o = {} THEN d ELSE unwrap(o)

Pow10(n) == IF n = 8 THEN 100000000 ELSE IF n = 6 THEN 1000000 ELSE 1

Kinds == {"prompt", "payment"}
Users == {1, 2}
\* the users who open wizard sessions
Starters == {1}
Groups == {100}

\* str::parse::<u8>() of a callback argument: {n} is the numeral n, {} is
\* text that is no numeral
ParseU8(arg) == IF arg # {} /\ unwrap(arg) \in 0..255 THEN arg ELSE None

-----------------------------------------------------------------------------
(* Steps of the two wizards, in their order *)

PaymentSteps == <<"AwaitingRecipient", "AwaitingToken", "AwaitingAmount",
                  "AwaitingDate", "AwaitingHour", "AwaitingMinute",
                  "AwaitingRepeat", "AwaitingConfirm">>

PromptSteps == <<"AwaitingPrompt", "AwaitingImage", "AwaitingHour",
                 "AwaitingMinute", "AwaitingRepeat", "AwaitingConfirm">>

StepIndex(steps, s) == CHOOSE i \in 1..Len(steps) : steps[i] = s

-----------------------------------------------------------------------------
(* Schedule Store and Wizard Store *)

get_schedule(k, id) ==
    IF id \in DOMAIN scheduled[k] THEN Some(scheduled[k][id]) ELSE None

\* the tree after insert(record.id, record)
tree_insert(tree, key, val) ==
    [x \in (DOMAIN tree) \cup {key} |-> IF x = key THEN val ELSE tree[x]]

tree_remove(tree, key) == [x \in (DOMAIN tree) \ {key} |-> tree[x]]

put_schedule(store, k, rec) ==
    [store EXCEPT ![k] = tree_insert(store[k], rec.id, rec)]

\* a record of another creator: the fields the enumeration reads
other_record(id, active) ==
    [id |-> id, group_id |-> 100, creator_user_id |-> 9, active |-> active]

other_ids(k) == 1..(others[k].active + others[k].inactive)

list_schedules_for_group(store, k, group_id) ==
    {store[k][id] : id \in {i \in DOMAIN store[k] :
        store[k][i].group_id = group_id /\ store[k][i].active}}
      \cup {other_record(id, TRUE) : id \in {i \in 1..others[k].active : group_id = 100}}

get_pending(k, key) ==
    IF key \in DOMAIN pending[k] THEN Some(pending[k][key]) ELSE None

put_pending(store, k, key, st) ==
    [store EXCEPT ![k] = tree_insert(store[k], key, st)]

\* a delete that leaves the key in the tree
delete_pending_keeping_key(store, k, key) == store

delete_pending(store, k, key) ==
    [store EXCEPT ![k] = tree_remove(store[k], key)]

\* Uuid::new_v4(): an id no record of either tree carries
UsedIds ==
    (DOMAIN scheduled["prompt"]) \cup (DOMAIN scheduled["payment"])
        \cup other_ids("prompt") \cup other_ids("payment")
FreshId == CHOOSE i \in 1..(Cardinality(UsedIds) + 1) : i \notin UsedIds

\* records of kind k of the users of the run
Created(k) == {id \in DOMAIN scheduled[k] : scheduled[k][id].creator_user_id \in Users}

\* the last handler or runner step taken (history, read by the properties)
\* admin: what get_chat_administrators answered about u for that update
EvBy(op, k, u, id, ok, admin) ==
    [op |-> op, k |-> k, u |-> u, id |-> id, ok |-> ok, admin |-> admin]

Ev(op, k, u, id, ok) == EvBy(op, k, u, id, ok, TRUE)

RunnerVars == <<timers, tasks, executions>>

-----------------------------------------------------------------------------
(* Inputs of the handlers *)

\* message texts a user sends while a wizard is open
Texts == {"@bob", "APT", "5", "0", "2024-01-02", "nonsense", "/help"}

\* auth.get_credentials(uname) after trim_start_matches('@')
get_credentials(text) == IF text = "@bob" THEN Some("bob") ELSE None

\* the token step: APT is built in, anything else is looked up in the list
get_token_by_symbol(text) ==
    IF text = "APT" THEN Some([symbol |-> "APT", decimals |-> APT_DECIMALS])
    ELSE None

\* text.parse::<f64>()
parse_f64(text) ==
    IF text = "5" THEN Some(5) ELSE IF text = "0" THEN Some(0) ELSE None

\* calendar days of the model, day 0 first
DateNames == <<"2024-01-01", "2024-01-02", "2024-01-03", "2024-01-04",
               "2024-01-05", "2024-01-06", "2024-01-07", "2024-01-08">>

\* NaiveDate::parse_from_str(text, "%Y-%m-%d"): the day number
parse_date(text) ==
    IF \E i \in 1..Len(DateNames) : DateNames[i] = text
    THEN Some((CHOOSE i \in 1..Len(DateNames) : DateNames[i] = text) - 1)
    ELSE None

\* dt.format("%Y-%m-%d") of a timestamp
format_date(ts) == DateNames[(ts \div DAY) + 1]

\* arguments carried by the hour and minute buttons
HourArgs == {{9}, {}}
MinuteArgs == {{30}}
PayRepeatArgs == {"1d", "2w"}
PromptRepeatArgs == {"none", "1d"}

-----------------------------------------------------------------------------
(* Scheduled payments: wizard state and record *)

\* PendingPaymentWizardState of handle_schedulepayment_command.
\* recipient_address is written and cleared with recipient_username, and
\* token_type with symbol; the message-id bookkeeping is not modelled.
new_payment_state(g, u) ==
    [group_id |-> g, creator_user_id |-> u, step |-> "AwaitingRecipient",
     schedule_id |-> None, recipient_username |-> None, symbol |-> None,
     decimals |-> None, amount_display |-> None, date |-> None,
     hour_utc |-> None, minute_utc |-> None, repeat |-> None,
     weekly_weeks |-> None]

\* a reset that leaves the date of the session behind
reset_from_step_payments_keeping_date(st, step) ==
    LET i == StepIndex(PaymentSteps, step)
        a == IF i <= 1 THEN [st EXCEPT !.recipient_username = None] ELSE st
        b == IF i <= 2 THEN [a EXCEPT !.symbol = None, !.decimals = None] ELSE a
        c == IF i <= 3 THEN [b EXCEPT !.amount_display = None] ELSE b
        e == IF i <= 5 THEN [c EXCEPT !.hour_utc = None] ELSE c
        f == IF i <= 6 THEN [e EXCEPT !.minute_utc = None] ELSE e
    IN  IF i <= 7 THEN [f EXCEPT !.repeat = None, !.weekly_weeks = None] ELSE f

reset_from_step_payments(st, step) ==
    LET i == StepIndex(PaymentSteps, step)
        a == IF i <= 1 THEN [st EXCEPT !.recipient_username = None] ELSE st
        b == IF i <= 2 THEN [a EXCEPT !.symbol = None, !.decimals = None] ELSE a
        c == IF i <= 3 THEN [b EXCEPT !.amount_display = None] ELSE b
        d == IF i <= 4 THEN [c EXCEPT !.date = None] ELSE c
        e == IF i <= 5 THEN [d EXCEPT !.hour_utc = None] ELSE d
        f == IF i <= 6 THEN [e EXCEPT !.minute_utc = None] ELSE e
    IN  IF i <= 7 THEN [f EXCEPT !.repeat = None, !.weekly_weeks = None] ELSE f

\* NaiveDateTime::parse_from_str("{date} {hour:02}:{minute:02}") or, when
\* that does not parse, Utc::now()
first_run_of(st, t) ==
    LET d == IF st.date = None THEN None ELSE parse_date(unwrap(st.date))
        hour == unwrap_or(st.hour_utc, 0)
        minute == unwrap_or(st.minute_utc, 0)
    IN  IF d # None /\ hour <= 23 /\ minute <= 59
        THEN unwrap(d) * DAY + hour * HOUR + minute * MINUTE
        ELSE t

\* the ScheduledPaymentRecord finalize_and_register_payment builds
payment_record(st, id, t) ==
    [id |-> id, group_id |-> st.group_id,
     creator_user_id |-> st.creator_user_id,
     recipient_username |-> st.recipient_username,
     symbol |-> st.symbol, decimals |-> st.decimals,
     amount_smallest_units |->
        IF st.amount_display # None /\ st.decimals # None
        THEN Some(unwrap(st.amount_display) * Pow10(unwrap(st.decimals)))
        ELSE None,
     start_timestamp_utc |-> Some(first_run_of(st, t)),
     repeat |-> unwrap_or(st.repeat, "Weekly"),
     weekly_weeks |-> st.weekly_weeks,
     active |-> TRUE, created_at |-> t, last_run_at |-> None,
     next_run_at |-> Some(first_run_of(st, t)), run_count |-> 0,
     locked_until |-> None, scheduler_job_id |-> None,
     last_error |-> None, last_attempt_status |-> None]

\* the PendingPaymentWizardState schedpay_edit builds from a record
payment_state_of_record(rec) ==
    [group_id |-> rec.group_id, creator_user_id |-> rec.creator_user_id,
     step |-> "AwaitingRecipient", schedule_id |-> Some(rec.id),
     recipient_username |-> rec.recipient_username,
     symbol |-> rec.symbol, decimals |-> rec.decimals,
     amount_display |->
        IF rec.amount_smallest_units # None /\ rec.decimals # None
        THEN Some(unwrap(rec.amount_smallest_units) \div Pow10(unwrap(rec.decimals)))
        ELSE None,
     date |-> IF rec.start_timestamp_utc = None THEN None
              ELSE Some(format_date(unwrap(rec.start_timestamp_utc))),
     hour_utc |-> IF rec.start_timestamp_utc = None THEN None
                  ELSE Some((unwrap(rec.start_timestamp_utc) % DAY) \div HOUR),
     minute_utc |-> IF rec.start_timestamp_utc = None THEN None
                    ELSE Some((unwrap(rec.start_timestamp_utc) % HOUR) \div MINUTE),
     repeat |-> Some(rec.repeat), weekly_weeks |-> rec.weekly_weeks]

-----------------------------------------------------------------------------
(* Cron Registrar *)

LiveJobs == {t.job : t \in timers} \cup {t.job : t \in tasks}

\* a job handle of the timer facility that is not in use
FreshJob == CHOOSE j \in 1..(Cardinality(LiveJobs) + 1) : j \notin LiveJobs

\* timers and running tasks of records that were created during the run
RunTimers == {t.job : t \in {x \in timers : x.id \in Created(x.k)}}
                \cup {t.job : t \in {x \in tasks : x.id \in Created(x.k)}}

\* register(record): a one-shot timer for next_run_at; the timer facility
\* fires it once `at` is reached, immediately when it is already due
timer_of(k, rec, job) ==
    [job |-> job, k |-> k, id |-> rec.id, at |-> unwrap(rec.next_run_at)]

-----------------------------------------------------------------------------
(* Scheduled payments: the wizard handlers.  The dispatcher handles the    *)
(* updates of one chat one at a time: a handler starts when none is open.  *)

\* /schedulepayment
handle_schedulepayment_command(g, u) ==
    /\ handler = {}
    /\ \E is_admin \in BOOLEAN, sent \in BOOLEAN :
        /\ pending' = IF is_admin /\ sent
                      THEN put_pending(pending, "payment", <<g, u>>, new_payment_state(g, u))
                      ELSE pending
        /\ ev' = EvBy("schedulepayment", "payment", u, 0, is_admin /\ sent, is_admin)
    /\ UNCHANGED <<now, others, calc, boot, scheduled, handler, RunnerVars>>

is_command(text) == text = "/help"

\* a text step that takes every amount that parses, zero included
pay_message_step_any_amount(st, text) ==
    CASE st.step = "AwaitingRecipient" ->
            IF get_credentials(text) # None
            THEN Some([st EXCEPT !.recipient_username = get_credentials(text),
                                 !.step = "AwaitingToken"])
            ELSE None
      [] st.step = "AwaitingToken" ->
            IF get_token_by_symbol(text) # None
            THEN Some([st EXCEPT !.symbol = Some(unwrap(get_token_by_symbol(text)).symbol),
                                 !.decimals = Some(unwrap(get_token_by_symbol(text)).decimals),
                                 !.step = "AwaitingAmount"])
            ELSE None
      [] st.step = "AwaitingAmount" ->
            IF parse_f64(text) # None
            THEN Some([st EXCEPT !.amount_display = parse_f64(text),
                                 !.step = "AwaitingDate"])
            ELSE None
      [] st.step = "AwaitingDate" ->
            IF parse_date(text) # None
            THEN Some([st EXCEPT !.date = Some(text), !.step = "AwaitingHour"])
            ELSE None
      [] OTHER -> None

\* the state a text message leads to, None when the text is refused or the
\* step takes no text
pay_message_step(st, text) ==
    CASE st.step = "AwaitingRecipient" ->
            IF get_credentials(text) # None
            THEN Some([st EXCEPT !.recipient_username = get_credentials(text),
                                 !.step = "AwaitingToken"])
            ELSE None
      [] st.step = "AwaitingToken" ->
            IF get_token_by_symbol(text) # None
            THEN Some([st EXCEPT !.symbol = Some(unwrap(get_token_by_symbol(text)).symbol),
                                 !.decimals = Some(unwrap(get_token_by_symbol(text)).decimals),
                                 !.step = "AwaitingAmount"])
            ELSE None
      [] st.step = "AwaitingAmount" ->
            IF parse_f64(text) # None /\ unwrap(parse_f64(text)) > 0
            THEN Some([st EXCEPT !.amount_display = parse_f64(text),
                                 !.step = "AwaitingDate"])
            ELSE None
      [] st.step = "AwaitingDate" ->
            IF parse_date(text) # None
            THEN Some([st EXCEPT !.date = Some(text), !.step = "AwaitingHour"])
            ELSE None
      [] OTHER -> None

\* a text message of user u in chat g while u has a pending payment wizard
handle_message_scheduled_payments(g, u) ==
    /\ handler = {}
    /\ get_pending("payment", <<g, u>>) # None
    /\ \E text \in Texts, sent \in BOOLEAN, is_admin \in BOOLEAN :
        LET st == unwrap(get_pending("payment", <<g, u>>))
            nxt == IF is_command(text) THEN None ELSE pay_message_step(st, text)
        IN  /\ pending' = IF nxt # None /\ sent
                          THEN put_pending(pending, "payment", <<g, u>>, unwrap(nxt))
                          ELSE pending
            /\ ev' = EvBy("pay_message", "payment", u, 0, nxt # None /\ sent, is_admin)
    /\ UNCHANGED <<now, others, calc, boot, scheduled, handler, RunnerVars>>

\* a callback of a user get_chat_administrators does not list; the other
\* callbacks below are those of a user it lists
callback_admins_only(k, g, u) ==
    /\ handler = {}
    /\ ev' = EvBy("admins_only", k, u, 0, FALSE, FALSE)
    /\ UNCHANGED <<now, others, calc, boot, scheduled, pending, handler, RunnerVars>>

\* schedpay_hour:<h>, schedpay_min:<m>, schedpay_repeat:<r>: the state the
\* button leads to
pay_hour_step(st, arg) ==
    [st EXCEPT !.step = "AwaitingMinute", !.hour_utc = Some(unwrap_or(ParseU8(arg), 0))]

pay_min_step(st, arg) ==
    [st EXCEPT !.step = "AwaitingRepeat", !.minute_utc = Some(unwrap_or(ParseU8(arg), 0))]

pay_repeat_step(st, arg) ==
    [st EXCEPT !.step = "AwaitingConfirm",
               !.repeat = Some(IF arg = "1d" THEN "Daily" ELSE "Weekly"),
               !.weekly_weeks = CASE arg = "1d" -> None
                                  [] arg = "2w" -> Some(2)
                                  [] arg = "4w" -> Some(4)
                                  [] OTHER -> Some(1)]

\* a wizard button that rewrites the pending state of (g, u)
pay_button(op, g, u, nxt, sent) ==
    /\ handler = {}
    /\ pending' = IF sent THEN put_pending(pending, "payment", <<g, u>>, nxt)
                          ELSE pending
    /\ ev' = Ev(op, "payment", u, 0, sent)
    /\ UNCHANGED <<now, others, calc, boot, scheduled, handler, RunnerVars>>

schedpay_hour(g, u) ==
    /\ get_pending("payment", <<g, u>>) # None
    /\ \E arg \in HourArgs, sent \in BOOLEAN :
        pay_button("schedpay_hour", g, u,
                   pay_hour_step(unwrap(get_pending("payment", <<g, u>>)), arg), sent)

schedpay_min(g, u) ==
    /\ get_pending("payment", <<g, u>>) # None
    /\ \E arg \in MinuteArgs, sent \in BOOLEAN :
        pay_button("schedpay_min", g, u,
                   pay_min_step(unwrap(get_pending("payment", <<g, u>>)), arg), sent)

schedpay_repeat(g, u) ==
    /\ get_pending("payment", <<g, u>>) # None
    /\ \E arg \in PayRepeatArgs, sent \in BOOLEAN :
        pay_button("schedpay_repeat", g, u,
                   pay_repeat_step(unwrap(get_pending("payment", <<g, u>>)), arg), sent)

\* the step Back leads to, None at the first step
pay_prev_step(step) ==
    IF StepIndex(PaymentSteps, step) = 1 THEN None
    ELSE Some(PaymentSteps[StepIndex(PaymentSteps, step) - 1])

pay_back_step(st) ==
    [reset_from_step_payments(st, unwrap(pay_prev_step(st.step)))
        EXCEPT !.step = unwrap(pay_prev_step(st.step))]

schedpay_back(g, u) ==
    /\ get_pending("payment", <<g, u>>) # None
    /\ LET st == unwrap(get_pending("payment", <<g, u>>))
       IN  \E sent \in BOOLEAN :
            IF pay_prev_step(st.step) # None
            THEN pay_button("schedpay_back", g, u, pay_back_step(st), sent)
            ELSE pay_button("schedpay_back", g, u, st, FALSE)

\* a Cancel that closes an edit session by deactivating its record
schedpay_cancel_touching_record(g, u) ==
    /\ handler = {}
    /\ get_pending("payment", <<g, u>>) # None
    /\ LET st == unwrap(get_pending("payment", <<g, u>>))
       IN  /\ pending' = delete_pending(pending, "payment", <<g, u>>)
           /\ scheduled' = IF st.schedule_id = None
                                \/ get_schedule("payment", unwrap(st.schedule_id)) = None
                            THEN scheduled
                            ELSE put_schedule(scheduled, "payment",
                                    [unwrap(get_schedule("payment", unwrap(st.schedule_id)))
                                        EXCEPT !.active = FALSE])
           /\ ev' = Ev("schedpay_cancel", "payment", u,
                       unwrap_or(st.schedule_id, 0), st.creator_user_id = u)
    /\ UNCHANGED <<now, others, calc, boot, handler, RunnerVars>>

schedpay_cancel(g, u) ==
    /\ handler = {}
    /\ get_pending("payment", <<g, u>>) # None
    /\ LET st == unwrap(get_pending("payment", <<g, u>>))
       IN  /\ pending' = IF st.creator_user_id # u THEN pending
                         ELSE delete_pending(pending, "payment", <<g, u>>)
           /\ ev' = Ev("schedpay_cancel", "payment", u,
                       unwrap_or(st.schedule_id, 0), st.creator_user_id = u)
    /\ UNCHANGED <<now, others, calc, boot, scheduled, handler, RunnerVars>>

-----------------------------------------------------------------------------
(* Recurrence Calculator and register *)

\* periods in which every Weekly is one week long
period_of_single_week(repeat, weeks) ==
    CASE repeat = "Every5m" -> 5 * MINUTE
      [] repeat = "Every15m" -> 15 * MINUTE
      [] repeat = "Every30m" -> 30 * MINUTE
      [] repeat = "Every45m" -> 45 * MINUTE
      [] repeat = "Every1h" -> HOUR
      [] repeat = "Every3h" -> 3 * HOUR
      [] repeat = "Every6h" -> 6 * HOUR
      [] repeat = "Every12h" -> 12 * HOUR
      [] repeat = "Daily" -> DAY
      [] repeat = "Weekly" -> 7 * DAY

\* seconds between two occurrences of a repeating policy
period_of(repeat, weeks) ==
    CASE repeat = "Every5m" -> 5 * MINUTE
      [] repeat = "Every15m" -> 15 * MINUTE
      [] repeat = "Every30m" -> 30 * MINUTE
      [] repeat = "Every45m" -> 45 * MINUTE
      [] repeat = "Every1h" -> HOUR
      [] repeat = "Every3h" -> 3 * HOUR
      [] repeat = "Every6h" -> 6 * HOUR
      [] repeat = "Every12h" -> 12 * HOUR
      [] repeat = "Daily" -> DAY
      [] repeat = "Weekly" -> unwrap_or(weeks, 1) * 7 * DAY

\* the calendar: timestamps are seconds since 2024-01-01 00:00 UTC, the
\* first of DateNames
EPOCH_YEAR == 2024

is_leap_year(y) == (y % 4 = 0 /\ y % 100 # 0) \/ y % 400 = 0

days_in_month(y, m) ==
    CASE m \in {4, 6, 9, 11} -> 30
      [] m = 2 -> IF is_leap_year(y) THEN 29 ELSE 28
      [] OTHER -> 31

\* the date `day` days after the first of month m of year y
RECURSIVE ymd_from(_, _, _)
ymd_from(day, y, m) ==
    IF day < days_in_month(y, m)
    THEN [year |-> y, month |-> m, day |-> day + 1]
    ELSE ymd_from(day - days_in_month(y, m),
                  IF m = 12 THEN y + 1 ELSE y, IF m = 12 THEN 1 ELSE m + 1)

\* the calendar date of a timestamp
date_of(ts) == ymd_from(ts \div DAY, EPOCH_YEAR, 1)

\* days from the epoch to the first of month m of year y
RECURSIVE days_before(_, _)
days_before(y, m) ==
    IF y = EPOCH_YEAR /\ m = 1 THEN 0
    ELSE LET py == IF m = 1 THEN y - 1 ELSE y
             pm == IF m = 1 THEN 12 ELSE m - 1
         IN  days_before(py, pm) + days_in_month(py, pm)

\* months of thirty days each
add_months_by_thirty_days(ts, k) == ts + k * 30 * DAY

\* ts moved k calendar months on: the day of month is kept, or is the last
\* day of the target month when that month is shorter; the time of day is
\* kept
add_months(ts, k) ==
    LET d == date_of(ts)
        idx == (d.month - 1) + k
        y == d.year + (idx \div 12)
        m == (idx % 12) + 1
        dd == IF d.day <= days_in_month(y, m) THEN d.day ELSE days_in_month(y, m)
    IN  (days_before(y, m) + dd - 1) * DAY + (ts % DAY)

\* the first anchor + k months, k >= from, that is after ref
RECURSIVE next_monthly(_, _, _)
next_monthly(anchor, ref, from) ==
    IF add_months(anchor, from) > ref THEN add_months(anchor, from)
    ELSE next_monthly(anchor, ref, from + 1)

\* a calculator that counts periods from the reference time whether or not
\* the anchor is still ahead
next_occurrence_skipping_anchor(anchor, repeat, weeks, ref) ==
    IF repeat = "None" THEN (IF anchor > ref THEN Some(anchor) ELSE None)
    ELSE IF repeat = "Monthly" THEN Some(next_monthly(anchor, ref, 1))
    ELSE LET p == period_of(repeat, weeks)
         IN  Some(anchor + (((ref - anchor) \div p) + 1) * p)

\* a calculator that takes an anchor that is not behind as still ahead
next_occurrence_not_strict(anchor, repeat, weeks, ref) ==
    IF anchor >= ref THEN Some(anchor)
    ELSE IF repeat = "None" THEN None
    ELSE IF repeat = "Monthly" THEN Some(next_monthly(anchor, ref, 1))
    ELSE LET p == period_of(repeat, weeks)
         IN  Some(anchor + (((ref - anchor) \div p) + 1) * p)

\* next_occurrence(anchor_utc, repeat, reference_now): the anchor while it is
\* ahead, then the first anchor + k * period (k calendar months for
\* Monthly) after reference_now; a one-shot has no occurrence once its
\* anchor is reached
next_occurrence(anchor, repeat, weeks, ref) ==
    IF anchor > ref THEN Some(anchor)
    ELSE IF repeat = "None" THEN None
    ELSE IF repeat = "Monthly" THEN Some(next_monthly(anchor, ref, 1))
    ELSE LET p == period_of(repeat, weeks)
         IN  Some(anchor + (((ref - anchor) \div p) + 1) * p)

\* the anchor of a record: the start timestamp of a payment, the start hour
\* and minute on the day of creation of a prompt
anchor_of(k, rec) ==
    IF k = "payment" THEN unwrap_or(rec.start_timestamp_utc, rec.created_at)
    ELSE (rec.created_at \div DAY) * DAY + rec.start_hour_utc * HOUR
            + rec.start_minute_utc * MINUTE

weeks_of(k, rec) == IF k = "payment" THEN rec.weekly_weeks ELSE None

\* register(record): next_run_at as persisted, or computed from the anchor
\* and the repeat policy when absent (a one-shot whose time of day has
\* passed runs at that time on the next day)
next_run_for_register(k, rec, t) ==
    IF rec.next_run_at # None THEN unwrap(rec.next_run_at)
    ELSE IF anchor_of(k, rec) >= t THEN anchor_of(k, rec)
    ELSE unwrap_or(next_occurrence(anchor_of(k, rec), rec.repeat, weeks_of(k, rec), t),
                   anchor_of(k, rec) + DAY)

\* the record as register leaves it: next_run_at set, the job handle stored
register_schedule(k, rec, job, t) ==
    [rec EXCEPT !.next_run_at = Some(next_run_for_register(k, rec, t)),
                !.scheduler_job_id = Some(job)]

-----------------------------------------------------------------------------
(* Scheduled payments: Confirm, edit and the owner actions *)

\* a finalize that stores every session under a new id
finalize_and_register_payment_new_id(st) ==
    IF Cardinality(list_schedules_for_group(scheduled, "payment", st.group_id)) >= PAYMENT_CAP
    THEN UNCHANGED <<scheduled, timers>>
    ELSE LET id == FreshId
             rec == payment_record(st, id, now)
             reg == register_schedule("payment", rec, FreshJob, now)
         IN  /\ scheduled' = put_schedule(put_schedule(scheduled, "payment", rec), "payment", reg)
             /\ timers' = timers \cup {timer_of("payment", reg, FreshJob)}

\* finalize_and_register_payment(state): the cap, then put, register, put
finalize_and_register_payment(st) ==
    IF Cardinality(list_schedules_for_group(scheduled, "payment", st.group_id)) >= PAYMENT_CAP
    THEN UNCHANGED <<scheduled, timers>>
    ELSE LET id == unwrap_or(st.schedule_id, FreshId)
             rec == payment_record(st, id, now)
             reg == register_schedule("payment", rec, FreshJob, now)
         IN  /\ scheduled' = put_schedule(put_schedule(scheduled, "payment", rec), "payment", reg)
             /\ timers' = timers \cup {timer_of("payment", reg, FreshJob)}

Cap(k) == IF k = "prompt" THEN PROMPT_CAP ELSE PAYMENT_CAP

\* the bounds of the model on what a Confirm may add: records through a
\* Confirm that is below the cap, and timers
confirm_in_bounds(k, g, st_id) ==
    /\ (st_id = None /\ Cardinality(list_schedules_for_group(scheduled, k, g)) < Cap(k))
            => Cardinality(Created(k)) < MaxCreated
    /\ Cardinality(RunTimers) < MaxTimers

\* schedpay_confirm: without a pending state of (g, u) it only answers
schedpay_confirm(g, u) ==
    /\ handler = {}
    /\ IF get_pending("payment", <<g, u>>) = None
       THEN /\ ev' = Ev("schedpay_confirm", "payment", u, 0, FALSE)
            /\ UNCHANGED <<pending, scheduled, timers>>
       ELSE LET st == unwrap(get_pending("payment", <<g, u>>))
            IN  IF st.creator_user_id # u
                THEN /\ ev' = Ev("schedpay_confirm", "payment", u, 0, FALSE)
                     /\ UNCHANGED <<pending, scheduled, timers>>
                ELSE /\ confirm_in_bounds("payment", st.group_id, st.schedule_id)
                     /\ pending' = delete_pending(pending, "payment", <<g, u>>)
                     /\ finalize_and_register_payment(st)
                     /\ ev' = Ev("schedpay_confirm", "payment", u,
                                 unwrap_or(st.schedule_id, FreshId), TRUE)
    /\ UNCHANGED <<now, others, calc, boot, handler, tasks, executions>>

\* schedpay_edit:<id>: the creator opens a wizard session on the record
schedpay_edit(g, u, id) ==
    /\ handler = {}
    /\ get_schedule("payment", id) # None
    /\ LET rec == unwrap(get_schedule("payment", id))
       IN  /\ pending' = IF rec.creator_user_id # u THEN pending
                         ELSE put_pending(pending, "payment",
                                          <<rec.group_id, rec.creator_user_id>>,
                                          payment_state_of_record(rec))
           /\ ev' = Ev("schedpay_edit", "payment", u, id, rec.creator_user_id = u)
    /\ UNCHANGED <<now, others, calc, boot, scheduled, handler, RunnerVars>>

\* schedpay_edit<field>:<id>: the step each field button sets
EditFieldStep ==
    [schedpay_editrecipient |-> "AwaitingRecipient",
     schedpay_edittoken |-> "AwaitingToken",
     schedpay_editamount |-> "AwaitingAmount",
     schedpay_editdate |-> "AwaitingDate",
     schedpay_editrepeat |-> "AwaitingRepeat"]

schedpay_editfield(g, u, id) ==
    /\ handler = {}
    /\ get_schedule("payment", id) # None
    /\ \E field \in DOMAIN EditFieldStep :
        LET rec == unwrap(get_schedule("payment", id))
            key == <<rec.group_id, rec.creator_user_id>>
        IN  /\ pending' = IF get_pending("payment", key) = None THEN pending
                          ELSE put_pending(pending, "payment", key,
                                   [unwrap(get_pending("payment", key))
                                        EXCEPT !.step = EditFieldStep[field]])
            /\ ev' = Ev(field, "payment", u, id, get_pending("payment", key) # None)
    /\ UNCHANGED <<now, others, calc, boot, scheduled, handler, RunnerVars>>

\* An owner action on a stored record reads the record, changes its copy
\* and writes the copy back; the runner's tasks run beside the handler.
\* may_act: the authorization the handler applies to the record it read.
owner_begin(op, k, g, u, id, may_act) ==
    /\ handler = {}
    /\ get_schedule(k, id) # None
    /\ handler' = IF may_act
                  THEN {[op |-> op, k |-> k, u |-> u, rec |-> unwrap(get_schedule(k, id))]}
                  ELSE {}
    /\ ev' = Ev(IF may_act THEN "get_schedule" ELSE op, k, u, id, may_act)
    /\ UNCHANGED <<now, others, calc, boot, scheduled, pending, RunnerVars>>

schedpay_toggle(g, u, id) ==
    owner_begin("schedpay_toggle", "payment", g, u, id,
                get_schedule("payment", id) # None
                    /\ unwrap(get_schedule("payment", id)).creator_user_id = u)

schedpay_delete(g, u, id) ==
    owner_begin("schedpay_delete", "payment", g, u, id,
                get_schedule("payment", id) # None
                    /\ unwrap(get_schedule("payment", id)).creator_user_id = u)

schedpay_runnow(g, u, id) ==
    owner_begin("schedpay_runnow", "payment", g, u, id,
                get_schedule("payment", id) # None
                    /\ unwrap(get_schedule("payment", id)).creator_user_id = u)

\* sched_cancel:<id> of the prompts: the record must be of the chat
sched_cancel_id(g, u, id) ==
    owner_begin("sched_cancel_id", "prompt", g, u, id,
                get_schedule("prompt", id) # None
                    /\ unwrap(get_schedule("prompt", id)).group_id = g)

\* the copy of the record an owner action writes back
owner_change(op, rec, t) ==
    CASE op = "schedpay_toggle" -> [rec EXCEPT !.active = ~rec.active]
      [] op = "schedpay_delete" -> [rec EXCEPT !.active = FALSE]
      [] op = "schedpay_runnow" -> [rec EXCEPT !.next_run_at = Some(t)]
      [] op = "sched_cancel_id" -> [rec EXCEPT !.active = FALSE]

\* a write-back that takes the record of a delete out of the tree
owner_write_removing ==
    /\ handler # {}
    /\ LET h == unwrap(handler)
       IN  /\ scheduled' = IF h.op \in {"schedpay_delete", "sched_cancel_id"}
                            THEN [scheduled EXCEPT ![h.k] = tree_remove(@, h.rec.id)]
                            ELSE put_schedule(scheduled, h.k, owner_change(h.op, h.rec, now))
           /\ ev' = Ev(h.op, h.k, h.u, h.rec.id, TRUE)
    /\ handler' = {}
    /\ UNCHANGED <<now, others, calc, boot, pending, RunnerVars>>

\* put_schedule(&rec) of the open owner action
owner_write ==
    /\ handler # {}
    /\ LET h == unwrap(handler)
       IN  /\ scheduled' = put_schedule(scheduled, h.k, owner_change(h.op, h.rec, now))
           /\ ev' = Ev(h.op, h.k, h.u, h.rec.id, TRUE)
    /\ handler' = {}
    /\ UNCHANGED <<now, others, calc, boot, pending, RunnerVars>>

-----------------------------------------------------------------------------
(* Scheduled prompts: wizard state, record and handlers *)

new_prompt_state(g, u) ==
    [group_id |-> g, creator_user_id |-> u, step |-> "AwaitingPrompt",
     prompt |-> None, image_url |-> None, hour_utc |-> None,
     minute_utc |-> None, repeat |-> None]

reset_from_step_prompts(st, step) ==
    LET i == StepIndex(PromptSteps, step)
        a == IF i <= 1 THEN [st EXCEPT !.prompt = None] ELSE st
        b == IF i <= 2 THEN [a EXCEPT !.image_url = None] ELSE a
        c == IF i <= 3 THEN [b EXCEPT !.hour_utc = None] ELSE b
        d == IF i <= 4 THEN [c EXCEPT !.minute_utc = None] ELSE c
    IN  IF i <= 5 THEN [d EXCEPT !.repeat = None] ELSE d

\* the ScheduledPromptRecord finalize_and_register builds
prompt_record(st, id, t) ==
    [id |-> id, group_id |-> st.group_id,
     creator_user_id |-> st.creator_user_id,
     prompt |-> unwrap_or(st.prompt, ""), image_url |-> st.image_url,
     start_hour_utc |-> unwrap_or(st.hour_utc, 0),
     start_minute_utc |-> unwrap_or(st.minute_utc, 0),
     repeat |-> unwrap_or(st.repeat, "None"),
     active |-> TRUE, created_at |-> t, last_run_at |-> None,
     next_run_at |-> None, run_count |-> 0, locked_until |-> None,
     scheduler_job_id |-> None]

\* /scheduleprompt
handle_scheduleprompt_command(g, u) ==
    /\ handler = {}
    /\ \E is_admin \in BOOLEAN, sent \in BOOLEAN :
        /\ pending' = IF is_admin /\ sent
                      THEN put_pending(pending, "prompt", <<g, u>>, new_prompt_state(g, u))
                      ELSE pending
        /\ ev' = EvBy("scheduleprompt", "prompt", u, 0, is_admin /\ sent, is_admin)
    /\ UNCHANGED <<now, others, calc, boot, scheduled, handler, RunnerVars>>

PromptTexts == {"what is the time", "/help"}

\* handle_message_scheduled_prompts, a text message at AwaitingPrompt: the
\* schedule guard gives its verdict
prompt_text_message(g, u) ==
    /\ handler = {}
    /\ get_pending("prompt", <<g, u>>) # None
    /\ unwrap(get_pending("prompt", <<g, u>>)).step = "AwaitingPrompt"
    /\ \E text \in PromptTexts, is_reply \in BOOLEAN, verdict \in {"P", "F"},
          sent \in BOOLEAN, is_admin \in BOOLEAN :
        LET st == unwrap(get_pending("prompt", <<g, u>>))
            accepted == (is_reply \/ ~is_command(text)) /\ verdict # "F"
        IN  /\ pending' = IF accepted /\ sent
                          THEN put_pending(pending, "prompt", <<g, u>>,
                                   [st EXCEPT !.prompt = Some(text), !.step = "AwaitingImage"])
                          ELSE pending
            /\ ev' = EvBy("prompt_message", "prompt", u, 0, accepted /\ sent, is_admin)
    /\ UNCHANGED <<now, others, calc, boot, scheduled, handler, RunnerVars>>

\* handle_message_scheduled_prompts, a photo message at AwaitingImage: the
\* upload gives a url or fails
prompt_photo_message(g, u) ==
    /\ handler = {}
    /\ get_pending("prompt", <<g, u>>) # None
    /\ unwrap(get_pending("prompt", <<g, u>>)).step = "AwaitingImage"
    /\ \E uploaded \in BOOLEAN, sent \in BOOLEAN, is_admin \in BOOLEAN :
        LET st == unwrap(get_pending("prompt", <<g, u>>))
        IN  /\ pending' = IF uploaded /\ sent
                          THEN put_pending(pending, "prompt", <<g, u>>,
                                   [st EXCEPT !.image_url = Some("gs://image"),
                                              !.step = "AwaitingHour"])
                          ELSE pending
            /\ ev' = EvBy("prompt_photo", "prompt", u, 0, uploaded /\ sent, is_admin)
    /\ UNCHANGED <<now, others, calc, boot, scheduled, handler, RunnerVars>>

\* a wizard button that rewrites the pending prompt state of (g, u)
prompt_button(op, g, u, nxt, sent) ==
    /\ handler = {}
    /\ pending' = IF sent THEN put_pending(pending, "prompt", <<g, u>>, nxt)
                          ELSE pending
    /\ ev' = Ev(op, "prompt", u, 0, sent)
    /\ UNCHANGED <<now, others, calc, boot, scheduled, handler, RunnerVars>>

sched_skip_image(g, u) ==
    /\ get_pending("prompt", <<g, u>>) # None
    /\ \E sent \in BOOLEAN :
        prompt_button("sched_skip_image", g, u,
            [unwrap(get_pending("prompt", <<g, u>>))
                EXCEPT !.step = "AwaitingHour", !.image_url = None], sent)

sched_hour(g, u) ==
    /\ get_pending("prompt", <<g, u>>) # None
    /\ \E arg \in HourArgs, sent \in BOOLEAN :
        prompt_button("sched_hour", g, u,
            [unwrap(get_pending("prompt", <<g, u>>))
                EXCEPT !.step = "AwaitingMinute",
                       !.hour_utc = Some(unwrap_or(ParseU8(arg), 0))], sent)

sched_min(g, u) ==
    /\ get_pending("prompt", <<g, u>>) # None
    /\ \E arg \in MinuteArgs, sent \in BOOLEAN :
        prompt_button("sched_min", g, u,
            [unwrap(get_pending("prompt", <<g, u>>))
                EXCEPT !.step = "AwaitingRepeat",
                       !.minute_utc = Some(unwrap_or(ParseU8(arg), 0))], sent)

\* the RepeatPolicy of sched_repeat:<r>
prompt_repeat_of(arg) ==
    CASE arg = "none" -> "None"
      [] arg = "5m" -> "Every5m"
      [] arg = "15m" -> "Every15m"
      [] arg = "30m" -> "Every30m"
      [] arg = "45m" -> "Every45m"
      [] arg = "1h" -> "Every1h"
      [] arg = "3h" -> "Every3h"
      [] arg = "6h" -> "Every6h"
      [] arg = "12h" -> "Every12h"
      [] arg = "1d" -> "Daily"
      [] arg = "1w" -> "Weekly"
      [] arg = "1mo" -> "Monthly"
      [] OTHER -> "Every1h"

sched_repeat(g, u) ==
    /\ get_pending("prompt", <<g, u>>) # None
    /\ \E arg \in PromptRepeatArgs, sent \in BOOLEAN :
        prompt_button("sched_repeat", g, u,
            [unwrap(get_pending("prompt", <<g, u>>))
                EXCEPT !.step = "AwaitingConfirm",
                       !.repeat = Some(prompt_repeat_of(arg))], sent)

prompt_prev_step(step) ==
    IF StepIndex(PromptSteps, step) = 1 THEN None
    ELSE Some(PromptSteps[StepIndex(PromptSteps, step) - 1])

prompt_back_step(st) ==
    [reset_from_step_prompts(st, unwrap(prompt_prev_step(st.step)))
        EXCEPT !.step = unwrap(prompt_prev_step(st.step))]

sched_back(g, u) ==
    /\ get_pending("prompt", <<g, u>>) # None
    /\ LET st == unwrap(get_pending("prompt", <<g, u>>))
       IN  \E sent \in BOOLEAN :
            IF prompt_prev_step(st.step) # None
            THEN prompt_button("sched_back", g, u, prompt_back_step(st), sent)
            ELSE prompt_button("sched_back", g, u, st, FALSE)

sched_cancel(g, u) ==
    /\ handler = {}
    /\ get_pending("prompt", <<g, u>>) # None
    /\ pending' = delete_pending(pending, "prompt", <<g, u>>)
    /\ ev' = Ev("sched_cancel", "prompt", u, 0, TRUE)
    /\ UNCHANGED <<now, others, calc, boot, scheduled, handler, RunnerVars>>

\* a cap check that lets one record more through
finalize_and_register_above_cap(st) ==
    IF Cardinality(list_schedules_for_group(scheduled, "prompt", st.group_id)) > PROMPT_CAP
    THEN UNCHANGED <<scheduled, timers>>
    ELSE LET rec == prompt_record(st, FreshId, now)
             reg == register_schedule("prompt", rec, FreshJob, now)
         IN  /\ scheduled' = put_schedule(put_schedule(scheduled, "prompt", rec), "prompt", reg)
             /\ timers' = timers \cup {timer_of("prompt", reg, FreshJob)}

\* finalize_and_register(state): the cap, then put, register, put
finalize_and_register(st) ==
    IF Cardinality(list_schedules_for_group(scheduled, "prompt", st.group_id)) >= PROMPT_CAP
    THEN UNCHANGED <<scheduled, timers>>
    ELSE LET rec == prompt_record(st, FreshId, now)
             reg == register_schedule("prompt", rec, FreshJob, now)
         IN  /\ scheduled' = put_schedule(put_schedule(scheduled, "prompt", rec), "prompt", reg)
             /\ timers' = timers \cup {timer_of("prompt", reg, FreshJob)}

\* sched_confirm: without a pending state of (g, u) it does nothing
sched_confirm(g, u) ==
    /\ handler = {}
    /\ IF get_pending("prompt", <<g, u>>) = None
       THEN /\ ev' = Ev("sched_confirm", "prompt", u, 0, FALSE)
            /\ UNCHANGED <<pending, scheduled, timers>>
       ELSE /\ confirm_in_bounds("prompt", g, None)
            /\ pending' = delete_pending(pending, "prompt", <<g, u>>)
            /\ finalize_and_register(unwrap(get_pending("prompt", <<g, u>>)))
            /\ ev' = Ev("sched_confirm", "prompt", u, FreshId, TRUE)
    /\ UNCHANGED <<now, others, calc, boot, handler, tasks, executions>>

-----------------------------------------------------------------------------
(* The hour, minute and repeat buttons on callback data of any kind: the   *)
(* data of a callback query is what the client sends, and the handlers     *)
(* read it with split(':').nth(1).                                          *)

\* per button, the wizard it belongs to and the data it is pressed with:
\* numerals in and out of range and text that is no numeral, names of repeat
\* options and a name that is none
ButtonData ==
    [schedpay_hour |-> [k |-> "payment", data |-> {{9}, {99}, {}}],
     schedpay_min |-> [k |-> "payment", data |-> {{30}, {60}, {}}],
     schedpay_repeat |-> [k |-> "payment", data |-> {"1d", "2w", "bogus"}],
     sched_hour |-> [k |-> "prompt", data |-> {{9}, {99}, {}}],
     sched_min |-> [k |-> "prompt", data |-> {{30}, {60}, {}}],
     sched_repeat |-> [k |-> "prompt", data |-> {"none", "1d", "bogus"}]]

\* the state button b stores when it is pressed with data
button_step(b, st, data) ==
    CASE b = "schedpay_hour" -> pay_hour_step(st, data)
      [] b = "schedpay_min" -> pay_min_step(st, data)
      [] b = "schedpay_repeat" -> pay_repeat_step(st, data)
      [] b = "sched_hour" ->
            [st EXCEPT !.step = "AwaitingMinute",
                       !.hour_utc = Some(unwrap_or(ParseU8(data), 0))]
      [] b = "sched_min" ->
            [st EXCEPT !.step = "AwaitingRepeat",
                       !.minute_utc = Some(unwrap_or(ParseU8(data), 0))]
      [] b = "sched_repeat" ->
            [st EXCEPT !.step = "AwaitingConfirm",
                       !.repeat = Some(prompt_repeat_of(data))]

\* the callback of button b of user u in chat g: the pending state is
\* rewritten when the next step message was sent; the step remembers the
\* data it was pressed with
button_callback(b, g, u) ==
    /\ handler = {}
    /\ get_pending(ButtonData[b].k, <<g, u>>) # None
    /\ \E data \in ButtonData[b].data, sent \in BOOLEAN :
        LET k == ButtonData[b].k
            st == unwrap(get_pending(k, <<g, u>>))
        IN  /\ pending' = IF sent
                          THEN put_pending(pending, k, <<g, u>>, button_step(b, st, data))
                          ELSE pending
            /\ ev' = [op |-> b, k |-> k, u |-> u, id |-> 0, ok |-> sent,
                      admin |-> TRUE, data |-> data]
    /\ UNCHANGED <<now, others, calc, boot, scheduled, handler, RunnerVars>>

-----------------------------------------------------------------------------
(* Runner: a firing loads the record, checks it, claims the lease, runs    *)
(* the executor and writes the bookkeeping back.  Each firing is a task of *)
(* its own; its load and its writes are separate store operations.         *)

\* an eligibility check that does not look at the lease
eligible_ignoring_lock(rec, t) ==
    /\ rec.active
    /\ rec.next_run_at # None
    /\ unwrap(rec.next_run_at) <= t

\* an eligibility check that does not look at the active flag
eligible_ignoring_active(rec, t) ==
    /\ rec.next_run_at # None
    /\ unwrap(rec.next_run_at) <= t
    /\ (rec.locked_until = None \/ unwrap(rec.locked_until) <= t)

\* the eligibility check of a firing at time t
eligible(rec, t) ==
    /\ rec.active
    /\ rec.next_run_at # None
    /\ unwrap(rec.next_run_at) <= t
    /\ (rec.locked_until = None \/ unwrap(rec.locked_until) <= t)

fire_proceeds(k, id, t) ==
    get_schedule(k, id) # None /\ eligible(unwrap(get_schedule(k, id)), t)

\* a timer whose time has come fires: the firing loads the current record
RunnerFire ==
    \E tm \in timers :
        /\ boot.phase = "serving"
        /\ tm.at <= now
        /\ timers' = timers \ {tm}
        /\ IF fire_proceeds(tm.k, tm.id, now)
           THEN /\ tasks' = tasks \cup {[job |-> tm.job, k |-> tm.k, id |-> tm.id,
                                         pc |-> "claim", loaded_at |-> now,
                                         rec |-> unwrap(get_schedule(tm.k, tm.id))]}
                /\ ev' = Ev("fire", tm.k, 0, tm.id, TRUE)
           ELSE /\ tasks' = tasks
                /\ ev' = Ev("fire", tm.k, 0, tm.id, FALSE)
        /\ UNCHANGED <<now, others, calc, boot, scheduled, pending, handler, executions>>

\* the record a firing persists to claim the lease
claim_record(rec, t) == [rec EXCEPT !.locked_until = Some(t + LEASE)]

\* the firing persists the lease and invokes the payload executor
RunnerClaim ==
    \E tk \in tasks :
        /\ tk.pc = "claim"
        /\ scheduled' = put_schedule(scheduled, tk.k, claim_record(tk.rec, now))
        /\ tasks' = (tasks \ {tk}) \cup
                      {[tk EXCEPT !.pc = "exec", !.rec = claim_record(tk.rec, now)]}
        /\ executions' = executions + 1
        /\ ev' = Ev("claim", tk.k, 0, tk.id, TRUE)
        /\ UNCHANGED <<now, others, calc, boot, pending, timers, handler>>

\* the outcome of the executor as the record keeps it
outcome_record(k, rec, ok) ==
    IF k = "payment"
    THEN [rec EXCEPT !.last_attempt_status = Some(IF ok THEN "success" ELSE "failed"),
                     !.last_error = IF ok THEN None ELSE Some("executor failed")]
    ELSE rec

\* a bookkeeping that leaves an exhausted one-shot active
complete_record_keeping_one_shot(k, rec, ok, job, t) ==
    LET nxt == next_occurrence(anchor_of(k, rec), rec.repeat, weeks_of(k, rec), t)
        ran == [outcome_record(k, rec, ok)
                    EXCEPT !.last_run_at = Some(t), !.run_count = rec.run_count + 1,
                           !.locked_until = None]
    IN  IF nxt # None
        THEN [ran EXCEPT !.next_run_at = nxt, !.scheduler_job_id = Some(job)]
        ELSE [ran EXCEPT !.scheduler_job_id = None]

\* the record after an occurrence was consumed at time t
complete_record(k, rec, ok, job, t) ==
    LET nxt == next_occurrence(anchor_of(k, rec), rec.repeat, weeks_of(k, rec), t)
        ran == [outcome_record(k, rec, ok)
                    EXCEPT !.last_run_at = Some(t), !.run_count = rec.run_count + 1,
                           !.locked_until = None]
    IN  IF nxt # None
        THEN [ran EXCEPT !.next_run_at = nxt, !.scheduler_job_id = Some(job)]
        ELSE [ran EXCEPT !.active = FALSE, !.scheduler_job_id = None]

\* the executor returns: bookkeeping, then re-register or deactivate
RunnerComplete ==
    \E tk \in tasks, ok \in BOOLEAN :
        /\ tk.pc = "exec"
        /\ LET done == complete_record(tk.k, tk.rec, ok, FreshJob, now)
           IN  /\ scheduled' = put_schedule(scheduled, tk.k, done)
               /\ timers' = IF done.active
                            THEN timers \cup {timer_of(tk.k, done, FreshJob)}
                            ELSE timers
        /\ tasks' = tasks \ {tk}
        /\ ev' = Ev("complete", tk.k, 0, tk.id, ok)
        /\ UNCHANGED <<now, others, calc, boot, pending, handler, executions>>

-----------------------------------------------------------------------------
(* Environment: the clock *)

Horizon == MaxDays * DAY

\* the instants at which a timer or a record becomes due
TickTargets ==
    {tm.at : tm \in timers}
      \cup UNION {scheduled[k][id].next_run_at : <<k, id>> \in
                    {<<kk, i>> \in Kinds \X UsedIds : i \in DOMAIN scheduled[kk]}}

\* the clock reaches the next such instant
Tick ==
    /\ \E t \in TickTargets :
        /\ t > now
        /\ t <= Horizon
        /\ \A x \in TickTargets : x > now => t <= x
        /\ now' = t
    /\ ev' = Ev("tick", "payment", 0, 0, TRUE)
    /\ UNCHANGED <<others, calc, boot, scheduled, pending, timers, tasks, handler, executions>>

-----------------------------------------------------------------------------
(* Bootstrap: schedule_jobs registers the stored records of each kind,     *)
(* prompts first, before the job scheduler and the dispatcher start.        *)

\* no computation on given inputs is under way
Idle == [pc |-> "idle"]

\* the process once schedule_jobs has returned Ok
Serving == [phase |-> "serving", todo |-> {}, failed |-> {}]

\* register_all_schedules enumerates the records with active = true
boot_registers_inactive_too(rec) == TRUE

boot_registers(rec) == rec.active

\* register_all_schedules visits one stored record: an active record is
\* registered, or its registration fails and is logged
BootRegister ==
    /\ boot.phase \in Kinds
    /\ \E id \in boot.todo, ok \in BOOLEAN :
        LET k == boot.phase
            rec == scheduled[k][id]
            reg == register_schedule(k, rec, FreshJob, now)
        IN  /\ IF boot_registers(rec) /\ ok
               THEN /\ scheduled' = put_schedule(scheduled, k, reg)
                    /\ timers' = timers \cup {timer_of(k, reg, FreshJob)}
               ELSE UNCHANGED <<scheduled, timers>>
            /\ boot' = [boot EXCEPT !.todo = @ \ {id},
                                    !.failed = IF boot_registers(rec) /\ ~ok
                                               THEN @ \cup {<<k, id>>} ELSE @]
            /\ ev' = Ev("register", k, 0, id, boot_registers(rec) /\ ok)
    /\ UNCHANGED <<now, others, calc, pending, tasks, handler, executions>>

\* a register_all_schedules that gives up on the first record that fails
register_all_result_failing(failed) == IF failed = {} THEN "Ok" ELSE "Err"

\* what register_all_schedules returns: a record that failed was logged
register_all_result(failed) == "Ok"

\* schedule_jobs: register_all_schedules(..).await.map_err(..)? for the
\* prompts, then for the payments; main: schedule_jobs(..).await.expect(..)
schedule_jobs ==
    /\ boot.phase \in Kinds
    /\ boot.todo = {}
    /\ boot' = IF register_all_result({f \in boot.failed : f[1] = boot.phase}) = "Err"
               THEN [boot EXCEPT !.phase = "aborted"]
               ELSE IF boot.phase = "prompt"
               THEN [boot EXCEPT !.phase = "payment",
                                 !.todo = DOMAIN scheduled["payment"]]
               ELSE [boot EXCEPT !.phase = "serving"]
    /\ ev' = Ev("schedule_jobs", boot.phase, 0, 0, TRUE)
    /\ UNCHANGED <<now, others, calc, scheduled, pending, timers, tasks, handler, executions>>

\* a dispatcher that takes updates while schedule_jobs is still at work
dispatching_at_once == TRUE

\* main: the Dispatcher is built and dispatch() is awaited once
\* schedule_jobs(..).await has returned Ok
dispatching == boot.phase = "serving"

\* the process stops while an executor is running and starts again: the
\* timer facility and the firings under way are gone, the stores are as
\* they were persisted, and main runs schedule_jobs anew
process_restart ==
    /\ boot.phase = "serving"
    /\ \E tk \in tasks :
        /\ tk.pc = "exec"
        /\ ev' = Ev("restart", tk.k, 0, tk.id, TRUE)
    /\ timers' = {}
    /\ tasks' = {}
    /\ handler' = {}
    /\ boot' = [phase |-> "prompt", todo |-> DOMAIN scheduled["prompt"], failed |-> {}]
    /\ UNCHANGED <<now, others, calc, scheduled, pending, executions>>

-----------------------------------------------------------------------------
(* Initial states: the stores as earlier sessions of the wizards left them *)
(* and the timers bootstrap registered for their active records.           *)

EmptyTree == [x \in {} |-> 0]

\* a payment wizard session that went through every step
full_payment_state(g, u) ==
    [new_payment_state(g, u) EXCEPT
        !.step = "AwaitingConfirm", !.recipient_username = Some("bob"),
        !.symbol = Some("APT"), !.decimals = Some(APT_DECIMALS),
        !.amount_display = Some(5), !.date = Some("2024-01-02"),
        !.hour_utc = Some(0), !.minute_utc = Some(0),
        !.repeat = Some("Daily")]

\* the payment of id `id` that user 1 confirmed at time 0, as registered
seed_record(id, job) ==
    register_schedule("payment", payment_record(full_payment_state(100, 1), id, 0), job, 0)

\* n active and i inactive records of other creators of each kind (short
\* of the cap by `short`), and m payments of user 1
InitWith(short, i, m) ==
    /\ now = 0
    /\ boot = Serving
    /\ calc = Idle
    /\ others = [k \in Kinds |->
                    IF short > Cap(k) THEN [active |-> 0, inactive |-> 0]
                    ELSE [active |-> Cap(k) - short, inactive |-> i]]
    /\ scheduled = [k \in Kinds |->
                      IF k = "payment"
                      THEN [id \in (others[k].active + others[k].inactive + 1)
                                    ..(others[k].active + others[k].inactive + m)
                                |-> seed_record(id, id)]
                      ELSE EmptyTree]
    /\ pending = [k \in Kinds |-> EmptyTree]
    /\ timers = {timer_of("payment", scheduled["payment"][id], id) :
                    id \in DOMAIN scheduled["payment"]}
    /\ tasks = {}
    /\ handler = {}
    /\ executions = 0
    /\ ev = Ev("init", "payment", 0, 0, TRUE)

\* the group is at the cap of active records of each kind, or one short of
\* it, and has an inactive record of each kind; or its only record is a
\* daily payment of user 1
InitWiz ==
    \/ InitWith(0, 1, 0)
    \/ InitWith(1, 1, 0)
    \/ InitWith(PAYMENT_CAP + 1, 0, 1)

\* one daily payment of user 1, registered for the next day
InitRun == InitWith(PAYMENT_CAP + 1, 0, 1)

Init == InitWith(PAYMENT_CAP + 1, 0, 0)

\* a prompt of user 1 in group 200, confirmed at time 0 for 00:05
stored_prompt(id, repeat, next_run) ==
    [prompt_record([new_prompt_state(200, 1) EXCEPT
                        !.step = "AwaitingConfirm",
                        !.prompt = Some("what is the time"),
                        !.hour_utc = Some(0), !.minute_utc = Some(5),
                        !.repeat = Some(repeat)], id, 0)
        EXCEPT !.next_run_at = next_run]

\* the process starts: the store holds a prompt (one-shot or recurring,
\* its next_run_at persisted or absent), an active payment and a deleted
\* payment of another group; the timer facility is empty
InitBoot ==
    /\ now = 0
    /\ others = [k \in Kinds |-> [active |-> 0, inactive |-> 0]]
    /\ \E repeat \in {"None", "Every12h"}, next_run \in {None, Some(5 * MINUTE)} :
        scheduled = [k \in Kinds |->
                        IF k = "prompt"
                        THEN [id \in {3} |-> stored_prompt(id, repeat, next_run)]
                        ELSE [id \in {1, 2} |->
                                IF id = 1 THEN seed_record(1, 1)
                                ELSE [seed_record(2, 2) EXCEPT !.active = FALSE,
                                                               !.group_id = 200]]]
    /\ boot = [phase |-> "prompt", todo |-> DOMAIN scheduled["prompt"], failed |-> {}]
    /\ calc = Idle
    /\ pending = [k \in Kinds |-> EmptyTree]
    /\ timers = {}
    /\ tasks = {}
    /\ handler = {}
    /\ executions = 0
    /\ ev = Ev("init", "payment", 0, 0, TRUE)

\* the Confirm of a creator who is not among Users: finalize refuses it at
\* the cap and stores an active record below it
other_confirm(k) ==
    /\ handler = {}
    /\ LET below == Cardinality(list_schedules_for_group(scheduled, k, 100)) < Cap(k)
       IN  /\ others' = IF below THEN [others EXCEPT ![k].active = @ + 1] ELSE others
           /\ ev' = Ev("other_confirm", k, 9, 0, below)
    /\ UNCHANGED <<now, calc, boot, scheduled, pending, handler, RunnerVars>>

\* the group is at the cap of active payments, the daily payment of user 1
\* among them, and one short of the cap of active prompts
InitQuota ==
    /\ now = 0
    /\ boot = Serving
    /\ calc = Idle
    /\ others = [k \in Kinds |-> [active |-> Cap(k) - 1, inactive |-> 0]]
    /\ scheduled = [k \in Kinds |->
                      IF k = "payment"
                      THEN [id \in {PAYMENT_CAP + 1} |-> seed_record(id, 1)]
                      ELSE EmptyTree]
    /\ pending = [k \in Kinds |-> EmptyTree]
    /\ timers = {timer_of("payment", scheduled["payment"][id], 1) :
                    id \in DOMAIN scheduled["payment"]}
    /\ tasks = {}
    /\ handler = {}
    /\ executions = 0
    /\ ev = Ev("init", "payment", 0, 0, TRUE)

-----------------------------------------------------------------------------
(* Enumeration of a schedule tree whose entries may fail to decode.  An    *)
(* entry is the bytes stored under a key: a record in the current format,  *)
(* a record in the legacy format of the prompts, or bytes that are neither. *)

\* a decode with no second try in the legacy format
decode_schedule_new_format_only(k, entry) ==
    IF entry.format = "new"
    THEN Some([id |-> entry.id, group_id |-> entry.group_id, active |-> entry.active])
    ELSE None

\* the record the bytes of an entry decode to, None when they do not:
\* serde_json::from_slice for a payment; bincode::decode_from_slice for a
\* prompt, as ScheduledPromptRecord or else as LegacyScheduledPromptRecord,
\* which migrate_legacy_scheduled_prompt turns into a record
decode_schedule(k, entry) ==
    IF entry.format = "new" \/ (k = "prompt" /\ entry.format = "legacy")
    THEN Some([id |-> entry.id, group_id |-> entry.group_id, active |-> entry.active])
    ELSE None

\* list_schedules_for_group over the entries of the tree in key order: the
\* Vec it returns
RECURSIVE list_entries_for_group(_, _, _)
list_entries_for_group(k, entries, group_id) ==
    IF entries = <<>> THEN <<>>
    ELSE LET rec == decode_schedule(k, Head(entries))
             rest == list_entries_for_group(k, Tail(entries), group_id)
         IN  IF rec # None /\ unwrap(rec).group_id = group_id /\ unwrap(rec).active
             THEN <<unwrap(rec)>> \o rest
             ELSE rest

\* list_schedules_for_group(group_id) is called on the tree: it returns its
\* Vec, and a legacy prompt it met is stored again in the current format
enumerate ==
    /\ calc.pc = "stored"
    /\ calc' = [calc EXCEPT
                    !.pc = "listed",
                    !.out = list_entries_for_group(calc.k, calc.tree, calc.group_id),
                    !.tree = [i \in 1..Len(calc.tree) |->
                                IF calc.k = "prompt" /\ calc.tree[i].format = "legacy"
                                THEN [calc.tree[i] EXCEPT !.format = "new"]
                                ELSE calc.tree[i]]]
    /\ ev' = Ev("list_schedules_for_group", calc.k, 0, 0, TRUE)
    /\ UNCHANGED <<now, others, boot, scheduled, pending, timers, tasks, handler, executions>>

\* a tree of up to MaxEntries entries under the keys 1, 2, ..: records of
\* two groups, active or not, in the current or the legacy format, and
\* bytes that decode as neither
InitList ==
    /\ now = 0
    /\ boot = Serving
    /\ others = [k \in Kinds |-> [active |-> 0, inactive |-> 0]]
    /\ scheduled = [k \in Kinds |-> EmptyTree]
    /\ pending = [k \in Kinds |-> EmptyTree]
    /\ timers = {}
    /\ tasks = {}
    /\ handler = {}
    /\ executions = 0
    /\ ev = Ev("init", "payment", 0, 0, TRUE)
    /\ \E k \in Kinds, group_id \in {100, 200}, n \in 0..MaxEntries :
        \E shape \in [1..n -> {<<"new", 100, TRUE>>, <<"new", 100, FALSE>>,
                                <<"new", 200, TRUE>>, <<"legacy", 100, TRUE>>,
                                <<"corrupt", 0, FALSE>>}] :
            calc = [pc |-> "stored", k |-> k, group_id |-> group_id,
                    tree |-> [i \in 1..n |->
                                [id |-> i, format |-> shape[i][1],
                                 group_id |-> shape[i][2], active |-> shape[i][3]]],
                    out |-> <<>>]

\* user 1 has a payment wizard or a prompt wizard open at the hour step
InitButton ==
    /\ now = 0
    /\ boot = Serving
    /\ calc = Idle
    /\ others = [k \in Kinds |-> [active |-> 0, inactive |-> 0]]
    /\ scheduled = [k \in Kinds |-> EmptyTree]
    /\ \E open \in Kinds :
        pending = [k \in Kinds |->
                    IF k # open THEN EmptyTree
                    ELSE IF k = "payment"
                    THEN [key \in {<<100, 1>>} |->
                            reset_from_step_payments(
                                [full_payment_state(100, 1) EXCEPT !.step = "AwaitingHour"],
                                "AwaitingHour")]
                    ELSE [key \in {<<100, 1>>} |->
                            [new_prompt_state(100, 1) EXCEPT
                                !.step = "AwaitingHour",
                                !.prompt = Some("what is the time")]]]
    /\ timers = {}
    /\ tasks = {}
    /\ handler = {}
    /\ executions = 0
    /\ ev = Ev("init", "payment", 0, 0, TRUE)

-----------------------------------------------------------------------------
(* The Recurrence Calculator on given inputs: an anchor, a repeat policy    *)
(* and a reference time, then the occurrences that follow one another.     *)

\* anchors: 2024-01-01 00:00, 2024-01-01 09:30, 2024-01-31 09:30
CalcAnchors == {0, 9 * HOUR + 30 * MINUTE, 30 * DAY + 9 * HOUR + 30 * MINUTE}

\* reference times, as distances from the anchor
CalcOffsets ==
    {0 - DAY, 0 - HOUR, 0 - 1, 0, 1, 7 * MINUTE, HOUR, DAY, 9 * DAY, 14 * DAY,
     31 * DAY, 60 * DAY}

\* repeat policies with the week multiplier of Weekly
CalcPolicies ==
    {<<"None", None>>, <<"Every5m", None>>, <<"Every1h", None>>, <<"Daily", None>>,
     <<"Weekly", None>>, <<"Weekly", Some(2)>>, <<"Monthly", None>>}

\* how late after an occurrence the next one is computed
CalcDelays == {0, 7 * MINUTE}

\* the wizard session that asks for repeat at the date and time of anchor
calc_payment_state(anchor, repeat, weeks) ==
    [full_payment_state(100, 1) EXCEPT
        !.date = Some(format_date(anchor)),
        !.hour_utc = Some((anchor % DAY) \div HOUR),
        !.minute_utc = Some((anchor % HOUR) \div MINUTE),
        !.repeat = Some(repeat), !.weekly_weeks = weeks]

calc_prompt_state(anchor, repeat) ==
    [new_prompt_state(100, 1) EXCEPT
        !.step = "AwaitingConfirm", !.prompt = Some("what is the time"),
        !.hour_utc = Some((anchor % DAY) \div HOUR),
        !.minute_utc = Some((anchor % HOUR) \div MINUTE),
        !.repeat = Some(repeat)]

\* next_run_at of the record a Confirm at time t builds and registers for
\* the anchor: a payment for Daily and Weekly on a day of DateNames, a
\* prompt for an anchor on the day of t; None when neither wizard can ask
\* for it
first_registration(anchor, repeat, weeks, t) ==
    IF repeat \in {"Daily", "Weekly"} /\ anchor \div DAY < Len(DateNames)
    THEN register_schedule("payment",
             payment_record(calc_payment_state(anchor, repeat, weeks), 1, t), 1, t).next_run_at
    ELSE IF weeks = None /\ anchor \div DAY = t \div DAY
    THEN register_schedule("prompt",
             prompt_record(calc_prompt_state(anchor, repeat), 1, t), 1, t).next_run_at
    ELSE None

\* next_occurrence(anchor, repeat, reference_now) is computed, and the
\* record of a first registration at reference_now is registered
calculate ==
    /\ calc.pc = "input"
    /\ calc' = [calc EXCEPT
                    !.pc = "done",
                    !.out = next_occurrence(calc.anchor, calc.repeat, calc.weeks, calc.ref),
                    !.reg = first_registration(calc.anchor, calc.repeat, calc.weeks, calc.ref)]
    /\ ev' = Ev("calculate", "payment", 0, 0, TRUE)
    /\ UNCHANGED <<now, others, boot, scheduled, pending, timers, tasks, handler, executions>>

\* the occurrence was consumed at its time or a little late: the next one
\* is computed with that time as reference_now
calculate_next ==
    /\ calc.pc = "done"
    /\ calc.out # None
    /\ calc.n < MaxOccurrences
    /\ \E late \in CalcDelays :
        calc' = [calc EXCEPT
                    !.n = calc.n + 1,
                    !.prev = calc.out,
                    !.ref = unwrap(calc.out) + late,
                    !.out = next_occurrence(calc.anchor, calc.repeat, calc.weeks,
                                            unwrap(calc.out) + late),
                    !.reg = None]
    /\ ev' = Ev("calculate_next", "payment", 0, 0, TRUE)
    /\ UNCHANGED <<now, others, boot, scheduled, pending, timers, tasks, handler, executions>>

\* the inputs of the calculator; the stores are empty
InitCalc ==
    /\ now = 0
    /\ boot = Serving
    /\ others = [k \in Kinds |-> [active |-> 0, inactive |-> 0]]
    /\ scheduled = [k \in Kinds |-> EmptyTree]
    /\ pending = [k \in Kinds |-> EmptyTree]
    /\ timers = {}
    /\ tasks = {}
    /\ handler = {}
    /\ executions = 0
    /\ ev = Ev("init", "payment", 0, 0, TRUE)
    /\ \E anchor \in CalcAnchors, off \in CalcOffsets, pol \in CalcPolicies :
        /\ anchor + off >= 0
        /\ calc = [pc |-> "input", anchor |-> anchor, repeat |-> pol[1],
                   weeks |-> pol[2], ref |-> anchor + off, out |-> None,
                   reg |-> None, prev |-> None, n |-> 0]

-----------------------------------------------------------------------------
(* Specifications *)

OtherKind(k) == IF k = "payment" THEN "prompt" ELSE "payment"

\* bounds on the sessions of a run: a user has one wizard open at a time,
\* and opens one while the run may still create a record
session_in_bounds(k, g, u) ==
    /\ get_pending(OtherKind(k), <<g, u>>) = None
    /\ Cardinality(Created("payment")) + Cardinality(Created("prompt")) < MaxCreated

\* a record whose wizard went through every step
complete_payment(rec) ==
    /\ rec.recipient_username # None
    /\ rec.symbol # None
    /\ rec.amount_smallest_units # None

\* bounds on the edit sessions of a run: opened on complete records, while
\* a Confirm may still register a timer and the store is small
edit_in_bounds(id) ==
    /\ complete_payment(unwrap(get_schedule("payment", id)))
    /\ Cardinality(RunTimers) < MaxTimers
    /\ Cardinality(UsedIds) <= MaxCreated

PaymentWizard ==
    \/ \E g \in Groups, u \in Starters :
        session_in_bounds("payment", g, u) /\ handle_schedulepayment_command(g, u)
    \/ \E g \in Groups, u \in Users : handle_message_scheduled_payments(g, u)
    \/ \E g \in Groups, u \in Users : callback_admins_only("payment", g, u)
    \/ \E g \in Groups, u \in Users : schedpay_hour(g, u)
    \/ \E g \in Groups, u \in Users : schedpay_min(g, u)
    \/ \E g \in Groups, u \in Users : schedpay_repeat(g, u)
    \/ \E g \in Groups, u \in Users : schedpay_back(g, u)
    \/ \E g \in Groups, u \in Users : schedpay_cancel(g, u)
    \/ \E g \in Groups, u \in Users : schedpay_confirm(g, u)

PaymentOwner ==
    \/ \E g \in Groups, u \in Users, id \in Created("payment") :
        edit_in_bounds(id) /\ schedpay_edit(g, u, id)
    \/ \E g \in Groups, u \in Users, id \in Created("payment") : schedpay_editfield(g, u, id)
    \/ \E g \in Groups, u \in Users, id \in Created("payment") : schedpay_toggle(g, u, id)
    \/ \E g \in Groups, u \in Users, id \in Created("payment") : schedpay_delete(g, u, id)
    \/ \E g \in Groups, u \in Users, id \in Created("payment") : schedpay_runnow(g, u, id)

PromptWizard ==
    \/ \E g \in Groups, u \in Starters :
        session_in_bounds("prompt", g, u) /\ handle_scheduleprompt_command(g, u)
    \/ \E g \in Groups, u \in Users : prompt_text_message(g, u)
    \/ \E g \in Groups, u \in Users : prompt_photo_message(g, u)
    \/ \E g \in Groups, u \in Users : callback_admins_only("prompt", g, u)
    \/ \E g \in Groups, u \in Users : sched_skip_image(g, u)
    \/ \E g \in Groups, u \in Users : sched_hour(g, u)
    \/ \E g \in Groups, u \in Users : sched_min(g, u)
    \/ \E g \in Groups, u \in Users : sched_repeat(g, u)
    \/ \E g \in Groups, u \in Users : sched_back(g, u)
    \/ \E g \in Groups, u \in Users : sched_cancel(g, u)
    \/ \E g \in Groups, u \in Users : sched_confirm(g, u)

PromptOwner ==
    \E g \in Groups, u \in Users, id \in Created("prompt") : sched_cancel_id(g, u, id)

Runner == RunnerFire \/ RunnerClaim \/ RunnerComplete

\* the wizards and the owner actions, no timer firing
NextWiz == PaymentWizard \/ PaymentOwner \/ PromptWizard \/ PromptOwner \/ owner_write

\* the runner, the clock, and the owner's actions on the record
NextRun ==
    \/ Runner
    \/ Tick
    \/ owner_write
    \/ \E g \in Groups, u \in Users, id \in Created("payment") : schedpay_edit(g, u, id)
    \/ \E g \in Groups, u \in Users : schedpay_confirm(g, u)
    \/ \E g \in Groups, u \in Users, id \in Created("payment") : schedpay_toggle(g, u, id)
    \/ \E g \in Groups, u \in Users, id \in Created("payment") : schedpay_delete(g, u, id)
    \/ \E g \in Groups, u \in Users, id \in Created("payment") : schedpay_runnow(g, u, id)

\* the start of the process, then the runner and the clock
NextBoot == BootRegister \/ schedule_jobs \/ Runner \/ Tick

\* the start of the process, the runner, the clock, and a stop of the
\* process in the middle of an execution
NextRestart == NextBoot \/ process_restart

\* the Recurrence Calculator
NextCalc == calculate \/ calculate_next

\* the hour, minute and repeat buttons of the two wizards
NextButton ==
    \E b \in DOMAIN ButtonData, g \in Groups, u \in Users : button_callback(b, g, u)

\* a group at its cap: the creator's pause/resume and delete, the edit of
\* the record up to its Confirm, and the Confirms of other creators
NextQuota ==
    \/ owner_write
    \/ \E g \in Groups, u \in Users, id \in Created("payment") : schedpay_toggle(g, u, id)
    \/ \E g \in Groups, u \in Users, id \in Created("payment") : schedpay_delete(g, u, id)
    \/ \E g \in Groups, u \in Users, id \in Created("payment") : schedpay_edit(g, u, id)
    \/ \E g \in Groups, u \in Users : schedpay_repeat(g, u)
    \/ \E g \in Groups, u \in Users : schedpay_cancel(g, u)
    \/ \E g \in Groups, u \in Users : schedpay_confirm(g, u)
    \/ \E k \in Kinds : other_confirm(k)

\* the start of the process, then the dispatcher: wizard commands, wizard
\* messages and a callback on a stored record
NextStart ==
    \/ BootRegister
    \/ schedule_jobs
    \/ \E g \in Groups, u \in Starters :
        dispatching /\ handle_schedulepayment_command(g, u)
    \/ \E g \in Groups, u \in Starters :
        dispatching /\ handle_scheduleprompt_command(g, u)
    \/ \E g \in Groups, u \in Users :
        dispatching /\ handle_message_scheduled_payments(g, u)
    \/ \E g \in Groups, u \in Users :
        dispatching /\ prompt_text_message(g, u)
    \/ \E g \in Groups, u \in Users, id \in Created("payment") :
        dispatching /\ schedpay_toggle(g, u, id)
    \/ dispatching /\ owner_write

\* the runner, the clock, and the creator's pause/resume, delete and run-now
NextLive ==
    \/ RunnerFire
    \/ RunnerClaim
    \/ RunnerComplete
    \/ Tick
    \/ owner_write
    \/ \E g \in Groups, u \in Users, id \in Created("payment") : schedpay_toggle(g, u, id)
    \/ \E g \in Groups, u \in Users, id \in Created("payment") : schedpay_delete(g, u, id)
    \/ \E g \in Groups, u \in Users, id \in Created("payment") : schedpay_runnow(g, u, id)

\* the timer facility fires a timer whose time has come, a spawned firing
\* and an open handler run on, and the clock goes on
RunsOn ==
    /\ WF_vars(RunnerFire)
    /\ WF_vars(RunnerClaim)
    /\ WF_vars(RunnerComplete)
    /\ WF_vars(Tick)
    /\ WF_vars(owner_write)

Next == NextWiz \/ Runner \/ Tick

SpecWiz == InitWiz /\ [][NextWiz]_vars

SpecRun == InitRun /\ [][NextRun]_vars

SpecBoot == InitBoot /\ [][NextBoot]_vars

SpecCalc == InitCalc /\ [][NextCalc]_vars

SpecRestart == InitBoot /\ [][NextRestart]_vars

SpecList == InitList /\ [][enumerate]_vars

SpecButton == InitButton /\ [][NextButton]_vars

SpecQuota == InitQuota /\ [][NextQuota]_vars

SpecStart == InitBoot /\ [][NextStart]_vars

SpecLive == InitRun /\ [][NextLive]_vars /\ RunsOn

Spec == Init /\ [][Next]_vars

TypeOK ==
    /\ now \in 0..Horizon
    /\ executions \in Nat
    /\ Cardinality(handler) <= 1

-----------------------------------------------------------------------------
(* Properties of the runner and the registrar (SpecRun) *)

\* timer jobs alive for a record: registered timers and firings under way
jobs_of(k, id) ==
    {tm.job : tm \in {x \in timers : x.k = k /\ x.id = id}}
        \cup {tk.job : tk \in {x \in tasks : x.k = k /\ x.id = id}}

\* a record that may be executed at time t
MayRunAt(rec, t) ==
    /\ rec.active = TRUE
    /\ rec.next_run_at # {}
    /\ \A n \in rec.next_run_at : n <= t
    /\ \A l \in rec.locked_until : l <= t

\* C1: for one record and one due occurrence, at most one firing claims the
\* lease and runs the executor, whatever the interleaving of timer fires and
\* run-now triggers: no two firings that loaded the same due record are
\* both running the executor.
C1_OneExecutionPerOccurrence ==
    \A t1 \in tasks, t2 \in tasks :
        (/\ t1.pc = "exec" /\ t2.pc = "exec"
         /\ t1.k = t2.k /\ t1.id = t2.id
         /\ [t1.rec EXCEPT !.locked_until = {}] = [t2.rec EXCEPT !.locked_until = {}])
            => t1 = t2

\* C2: a firing passes the eligibility check only when the record it loads
\* is active, due and not under an unexpired lease, and the executor is
\* invoked only by a firing that passed the check on the record it loaded.
C2_ExecutorOnlyWhenEligible ==
    [][/\ (ev'.op = "fire" /\ tasks' # tasks)
            => MayRunAt(scheduled[ev'.k][ev'.id], now)
       /\ (executions' # executions)
            => \E tk \in tasks :
                /\ tk.pc = "claim" /\ tk.k = ev'.k /\ tk.id = ev'.id
                /\ MayRunAt(tk.rec, tk.loaded_at)]_vars

\* a second firing found the record due and active but under an unexpired
\* lease, and did not proceed
C2_Witness ==
    /\ ev.op = "fire" /\ ~ev.ok
    /\ scheduled[ev.k][ev.id].active
    /\ \A n \in scheduled[ev.k][ev.id].next_run_at : n <= now
    /\ \E l \in scheduled[ev.k][ev.id].locked_until : l > now
    /\ \E tk \in tasks : tk.k = ev.k /\ tk.id = ev.id /\ tk.pc = "exec"

\* C3: a timer fire that finds the record ineligible invokes no executor
\* and leaves the record, run_count included, as it was.
C3_IneligibleFireChangesNothing ==
    [][(ev'.op = "fire" /\ ~MayRunAt(scheduled[ev'.k][ev'.id], now))
        => /\ scheduled' = scheduled
           /\ executions' = executions
           /\ tasks' = tasks]_vars

\* the timer of a record that was paused after its registration fired
C3_Witness ==
    /\ ev.op = "fire" /\ ~ev.ok
    /\ ~scheduled[ev.k][ev.id].active
    /\ scheduled[ev.k][ev.id].run_count = 0
    /\ executions = 0

\* C4: every active record has exactly one live timer job.
C4_OneTimerPerActiveRecord ==
    \A k \in Kinds : \A id \in DOMAIN scheduled[k] :
        scheduled[k][id].active => Cardinality(jobs_of(k, id)) = 1

\* C5: after the Confirm of an edit of an existing record exactly one timer
\* is live for that record.
C5_EditConfirmLeavesOneTimer ==
    [][(/\ ev'.op = "schedpay_confirm" /\ ev'.ok
        /\ ev'.id \in DOMAIN scheduled["payment"])
        => Cardinality({tm \in timers' : tm.k = "payment" /\ tm.id = ev'.id}) = 1]_vars

\* C13: when a record was paused or deleted while its execution was in
\* flight, the record is still inactive after the runner has written back
\* the bookkeeping of that execution, and the write-back registers no timer
\* for it.
C13_PauseSurvivesWriteBack ==
    [][(/\ ev'.op = "complete"
        /\ scheduled[ev'.k][ev'.id].active = FALSE)
        => /\ scheduled'[ev'.k][ev'.id].active = FALSE
           /\ timers' = timers]_vars

\* C14: the write of a run-now changes next_run_at of the stored record to
\* the current time and nothing else of it (active, locked_until, run_count,
\* last_run_at, payload and job handle stay as the store has them), and it
\* starts no execution, fires no timer and registers none.
C14_RunNowOnlySetsNextRun ==
    [][(ev'.op = "schedpay_runnow" /\ ev'.ok)
        => /\ scheduled'[ev'.k][ev'.id]
                = [scheduled[ev'.k][ev'.id] EXCEPT !.next_run_at = {now}]
           /\ executions' = executions
           /\ tasks' = tasks
           /\ timers' = timers]_vars

DeleteOps == {"schedpay_delete", "sched_cancel_id"}

\* C21: no step of a wizard, of an owner action or of the runner takes a
\* record out of the Schedule Store: every id a tree holds it holds after
\* the step, the records of other creators stay, and the write of a delete
\* leaves the record in its tree with active = false and the other records
\* as they were.
C21_RecordsNeverRemoved ==
    [][/\ \A k \in Kinds : (DOMAIN scheduled[k]) \subseteq (DOMAIN scheduled'[k])
       /\ others' = others
       /\ (ev'.op \in DeleteOps /\ ev'.ok)
            => /\ ev'.id \in DOMAIN scheduled'[ev'.k]
               /\ scheduled'[ev'.k][ev'.id].active = FALSE
               /\ \A k \in Kinds : \A id \in (DOMAIN scheduled[k]) \ {ev'.id} :
                    scheduled'[k][id] = scheduled[k][id]]_vars

\* the payment was deleted by its creator: it is in the store, inactive
C21_Witness ==
    /\ ev.op = "schedpay_delete"
    /\ ev.ok
    /\ ev.id \in DOMAIN scheduled["payment"]
    /\ scheduled["payment"][ev.id].active = FALSE
    /\ scheduled["payment"][ev.id].creator_user_id = ev.u

\* C27: after every completed execution of a recurring record, run_count
\* of the stored record is one more than before, last_run_at is the time
\* of the run, locked_until is empty, next_run_at is later than the time of
\* the run and a timer of the record is registered for it.
C27_CompletionBookkeeping ==
    [][(/\ ev'.op = "complete"
        /\ ev'.id \in DOMAIN scheduled[ev'.k]
        /\ scheduled[ev'.k][ev'.id].repeat # "None")
            => LET old == scheduled[ev'.k][ev'.id]
                   new == scheduled'[ev'.k][ev'.id]
               IN  /\ new.run_count = old.run_count + 1
                   /\ new.last_run_at = {now}
                   /\ new.locked_until = {}
                   /\ new.next_run_at # {}
                   /\ \A n \in new.next_run_at :
                        /\ n > now
                        /\ \E tm \in timers' :
                            tm.k = ev'.k /\ tm.id = ev'.id /\ tm.at = n]_vars

\* C28: while the executor of a firing runs and the lease the firing took
\* has not expired, the persisted record is locked: the lease is persisted
\* before the executor is invoked and cleared only after it has returned.
C28_LockedWhileExecuting ==
    \A tk \in tasks :
        (tk.pc = "exec" /\ \A l \in tk.rec.locked_until : now < l)
            => /\ tk.id \in DOMAIN scheduled[tk.k]
               /\ scheduled[tk.k][tk.id].locked_until # {}
               /\ \A l \in scheduled[tk.k][tk.id].locked_until : now < l

\* C34: for every stored record, no step lowers run_count or changes id or
\* created_at, and the Confirm of an edit of the record leaves run_count,
\* last_run_at and created_at as they were.
C34_RunCountNeverReset ==
    [][\A k \in Kinds : \A id \in DOMAIN scheduled[k] :
        /\ id \in DOMAIN scheduled'[k]
        /\ scheduled'[k][id].id = scheduled[k][id].id
        /\ scheduled'[k][id].created_at = scheduled[k][id].created_at
        /\ scheduled'[k][id].run_count >= scheduled[k][id].run_count
        /\ (ev'.op = "schedpay_confirm" /\ ev'.ok /\ ev'.k = k /\ ev'.id = id)
            => scheduled'[k][id].last_run_at = scheduled[k][id].last_run_at]_vars

-----------------------------------------------------------------------------
(* Properties of the outcome of a firing and of bootstrap (SpecBoot) *)

\* C11: a one-shot record (repeat None) whose firing executed successfully
\* is written back inactive, with run_count 1, one more than before, and
\* with its job handle cleared; no timer is left for it.
C11_OneShotRunsOnce ==
    [][(/\ ev'.op = "complete" /\ ev'.ok
        /\ scheduled[ev'.k][ev'.id].repeat = "None")
        => /\ scheduled'[ev'.k][ev'.id].active = FALSE
           /\ scheduled'[ev'.k][ev'.id].run_count = 1
           /\ scheduled'[ev'.k][ev'.id].run_count = scheduled[ev'.k][ev'.id].run_count + 1
           /\ scheduled'[ev'.k][ev'.id].scheduler_job_id = {}
           /\ \A tm \in timers' : ~(tm.k = ev'.k /\ tm.id = ev'.id)]_vars

\* the one-shot prompt fired, its executor succeeded and it was written back
C11_Witness ==
    /\ ev.op = "complete" /\ ev.ok
    /\ scheduled[ev.k][ev.id].repeat = "None"
    /\ scheduled[ev.k][ev.id].active = FALSE
    /\ scheduled[ev.k][ev.id].run_count = 1
    /\ executions >= 1

\* an instant that is an occurrence of the record's repeat policy
IsOccurrence(k, rec, n) ==
    /\ n >= anchor_of(k, rec)
    /\ (n - anchor_of(k, rec)) % period_of(rec.repeat, weeks_of(k, rec)) = 0

\* C12: when the executor fails, the record written back carries the
\* failure in last_attempt_status and last_error; a recurring record has
\* its next_run_at at an occurrence after the failed one, a one-shot record
\* is deactivated.
C12_FailureConsumesOccurrence ==
    [][(ev'.op = "complete" /\ ~ev'.ok)
        => /\ "last_attempt_status" \in DOMAIN scheduled'[ev'.k][ev'.id]
           /\ scheduled'[ev'.k][ev'.id].last_attempt_status = {"failed"}
           /\ scheduled'[ev'.k][ev'.id].last_error # {}
           /\ IF scheduled[ev'.k][ev'.id].repeat = "None"
              THEN scheduled'[ev'.k][ev'.id].active = FALSE
              ELSE /\ scheduled'[ev'.k][ev'.id].next_run_at # {}
                   /\ \A n \in scheduled'[ev'.k][ev'.id].next_run_at :
                        /\ n > now
                        /\ \A m \in scheduled[ev'.k][ev'.id].next_run_at : n > m
                        /\ IsOccurrence(ev'.k, scheduled'[ev'.k][ev'.id], n)]_vars

\* timers registered for record id of kind k
timers_of(tms, k, id) == {tm \in tms : tm.k = k /\ tm.id = id}

\* C15: bootstrap registers for every stored active record, of every group,
\* one timer at its persisted next_run_at (at a computed one when none is
\* persisted), and registers none for an inactive record: when bootstrap
\* is over each active record whose registration did not fail has its
\* timer and no inactive record has one.
C15_BootstrapRegistersActive ==
    [][/\ (ev'.op = "register")
            => IF scheduled[ev'.k][ev'.id].active
                    /\ <<ev'.k, ev'.id>> \notin boot'.failed
               THEN \E tm \in timers' :
                        /\ tm \notin timers
                        /\ timers' = timers \cup {tm}
                        /\ tm.k = ev'.k /\ tm.id = ev'.id
                        /\ scheduled'[ev'.k][ev'.id].next_run_at = {tm.at}
                        /\ scheduled[ev'.k][ev'.id].next_run_at # {}
                            => scheduled[ev'.k][ev'.id].next_run_at = {tm.at}
               ELSE timers' = timers
       /\ (ev'.op = "schedule_jobs" /\ boot'.phase = "serving")
            => \A k \in Kinds : \A id \in DOMAIN scheduled'[k] :
                IF scheduled'[k][id].active /\ <<k, id>> \notin boot'.failed
                THEN /\ Cardinality(timers_of(timers', k, id)) = 1
                     /\ \A tm \in timers_of(timers', k, id) :
                            scheduled'[k][id].next_run_at = {tm.at}
                ELSE timers_of(timers', k, id) = {}]_vars

\* bootstrap is over: records of two groups have their timers, one of them
\* already due, and the inactive record has none
C15_Witness ==
    /\ ev.op = "schedule_jobs" /\ boot.phase = "serving" /\ boot.failed = {}
    /\ \E t1 \in timers, t2 \in timers :
        /\ scheduled[t1.k][t1.id].group_id # scheduled[t2.k][t2.id].group_id
        /\ t1.at <= now
    /\ \E k \in Kinds : \E id \in DOMAIN scheduled[k] :
        ~scheduled[k][id].active /\ timers_of(timers, k, id) = {}

-----------------------------------------------------------------------------
(* Properties across a restart of the process (SpecRestart) *)

\* C30: when the process stopped after a firing had persisted the lock and
\* invoked the executor and before the bookkeeping was written back, no
\* firing after the restart runs the executor for that occurrence again: a
\* firing that starts the executor finds no lock of a firing that never
\* wrote back.
C30_NoSecondExecutionAfterRestart ==
    [][ev'.op = "claim"
        => /\ ev'.id \in DOMAIN scheduled[ev'.k]
           /\ scheduled[ev'.k][ev'.id].locked_until = {}]_vars

-----------------------------------------------------------------------------
(* Properties of the Recurrence Calculator (SpecCalc) *)

\* the duration d of each FixedInterval(d) policy
IntervalOf ==
    [Every5m |-> 5 * MINUTE, Every15m |-> 15 * MINUTE, Every30m |-> 30 * MINUTE,
     Every45m |-> 45 * MINUTE, Every1h |-> HOUR, Every3h |-> 3 * HOUR,
     Every6h |-> 6 * HOUR, Every12h |-> 12 * HOUR]

\* v is the smallest anchor + k * p, k >= 0, that is after ref
FirstSlotAfter(v, anchor, p, ref) ==
    /\ v > ref
    /\ v >= anchor
    /\ (v - anchor) % p = 0
    /\ v = anchor \/ v - p <= ref

\* C22: for FixedInterval(d), whatever the anchor and reference_now,
\* next_occurrence returns the smallest anchor + k * d, k >= 0, that is
\* strictly greater than reference_now: a late firing gets a slot in the
\* future, never a past-due one.
C22_FixedIntervalNextSlot ==
    (calc.pc = "done" /\ calc.repeat \in DOMAIN IntervalOf)
        => /\ calc.out # {}
           /\ \A v \in calc.out :
                FirstSlotAfter(v, calc.anchor, IntervalOf[calc.repeat], calc.ref)

\* a firing 7 minutes after the anchor of an Every5m schedule: the next
\* slot is the one 10 minutes after the anchor
C22_Witness ==
    /\ calc.pc = "done"
    /\ calc.repeat = "Every5m"
    /\ calc.ref = calc.anchor + 7 * MINUTE
    /\ calc.out = {calc.anchor + 10 * MINUTE}

\* C23: for Daily and for Weekly(n), n = 1 when the multiplier is unset,
\* next_occurrence returns the earliest anchor plus a whole number of
\* periods (24h, n * 7 days) that is strictly greater than reference_now,
\* at the hour and minute of the anchor; Weekly(2) anchored at 2024-01-01
\* 00:00 with reference_now 2024-01-10 gives 2024-01-15 00:00.
C23_DailyWeeklyNextSlot ==
    (calc.pc = "done" /\ calc.repeat \in {"Daily", "Weekly"})
        => LET n == IF calc.weeks = {} THEN 1 ELSE CHOOSE w \in calc.weeks : TRUE
               p == IF calc.repeat = "Daily" THEN 24 * HOUR ELSE n * 7 * 24 * HOUR
           IN  /\ calc.out # {}
               /\ \A v \in calc.out :
                    /\ FirstSlotAfter(v, calc.anchor, p, calc.ref)
                    /\ v % DAY = calc.anchor % DAY
               /\ (calc.repeat = "Weekly" /\ calc.weeks = {2} /\ calc.anchor = 0
                        /\ calc.ref = 9 * DAY)
                    => calc.out = {14 * DAY}

\* Weekly(2) anchored at 2024-01-01 00:00, reference_now 2024-01-10: the
\* next occurrence is 2024-01-15 00:00
C23_Witness ==
    /\ calc.pc = "done"
    /\ calc.repeat = "Weekly"
    /\ calc.weeks = {2}
    /\ calc.anchor = 0
    /\ calc.ref = 9 * DAY
    /\ calc.out = {14 * DAY}

\* months since January of the epoch year
MonthIndex(ts) == (date_of(ts).year - EPOCH_YEAR) * 12 + date_of(ts).month

\* C24: every occurrence of a Monthly schedule is on the day of month of
\* the anchor, or on the last day of its month when that month is shorter,
\* at the time of day of the anchor, and successive occurrences are in
\* successive months: anchored on the 31st, the occurrence in a 30-day
\* month is on the 30th and the one after it on the 31st again.
C24_MonthlyKeepsDay ==
    (calc.pc = "done" /\ calc.repeat = "Monthly")
        => /\ calc.out # {}
           /\ \A v \in calc.out :
                LET d == date_of(v)
                    last == days_in_month(d.year, d.month)
                    want == date_of(calc.anchor).day
                IN  /\ v > calc.ref
                    /\ d.day = IF want <= last THEN want ELSE last
                    /\ v % DAY = calc.anchor % DAY
                    /\ \A p \in calc.prev : MonthIndex(v) = MonthIndex(p) + 1

\* anchored on January 31st: after the occurrence of April 30th comes the
\* one of May 31st
C24_Witness ==
    /\ calc.pc = "done"
    /\ calc.repeat = "Monthly"
    /\ date_of(calc.anchor).day = 31
    /\ calc.prev # {}
    /\ \A p \in calc.prev : date_of(p).month = 4 /\ date_of(p).day = 30
    /\ \A v \in calc.out : date_of(v).month = 5 /\ date_of(v).day = 31
    /\ calc.out # {}

\* C25: for every repeat policy, next_occurrence with reference_now
\* strictly before the anchor returns the anchor; the record a Confirm at
\* reference_now builds for that anchor and registers for the first time
\* has next_run_at = anchor.
C25_AnchorAheadIsNext ==
    (calc.pc = "done" /\ calc.n = 0 /\ calc.ref < calc.anchor)
        => /\ calc.out = {calc.anchor}
           /\ calc.reg \subseteq {calc.anchor}

\* a Monthly prompt confirmed an hour before its time of day: the next
\* occurrence and next_run_at of the registered record are the anchor
C25_Witness ==
    /\ calc.pc = "done"
    /\ calc.n = 0
    /\ calc.repeat = "Monthly"
    /\ calc.ref = calc.anchor - HOUR
    /\ calc.out = {calc.anchor}
    /\ calc.reg = {calc.anchor}

-----------------------------------------------------------------------------
(* Properties of the wizards and the owner actions (SpecWiz) *)

ConfirmOps == {"sched_confirm", "schedpay_confirm"}

CancelOps == {"sched_cancel", "schedpay_cancel"}

\* the per-record actions of the list-scheduled controls
RecordOps ==
    {"schedpay_toggle", "schedpay_delete", "schedpay_runnow", "schedpay_edit",
     "sched_cancel_id"} \cup DOMAIN EditFieldStep

\* active records of kind k in the group, whoever created them
ActiveInGroup(k) ==
    others[k].active
        + Cardinality({id \in DOMAIN scheduled[k] : scheduled[k][id].active = TRUE})

Ceiling(k) == IF k = "prompt" THEN 10 ELSE 50

\* the session of (group, u) of kind k creates a schedule, edits none
NewSession(k, u) ==
    /\ <<100, u>> \in DOMAIN pending[k]
    /\ k = "payment" => pending[k][<<100, u>>].schedule_id = {}

StoreUnchanged == scheduled' = scheduled /\ others' = others /\ timers' = timers

\* C6: a Confirm for a new schedule while the group has ceiling-many active
\* records of the kind (10 prompts, 50 payments) leaves the Schedule Store
\* as it is; below the ceiling it adds the record, whatever the number of
\* inactive records.
C6_ConfirmAtCeilingRejected ==
    [][\A k \in Kinds :
        (ev'.op \in ConfirmOps /\ ev'.k = k /\ NewSession(k, ev'.u))
            => IF ActiveInGroup(k) >= Ceiling(k)
               THEN StoreUnchanged
               ELSE /\ ev'.id \notin DOMAIN scheduled[k]
                    /\ DOMAIN scheduled'[k] = (DOMAIN scheduled[k]) \cup {ev'.id}]_vars

\* the Confirm of an 11th active prompt was refused
C6_Witness ==
    /\ ev.op = "sched_confirm"
    /\ ev.ok
    /\ ActiveInGroup("prompt") = 10
    /\ others["prompt"].inactive = 1
    /\ ev.id \notin DOMAIN scheduled["prompt"]
    /\ <<100, ev.u>> \notin DOMAIN pending["prompt"]

\* C7: Cancel at any step of a session, a session that edits a record
\* included, removes the pending state of (group, user) and leaves the
\* Schedule Store as it is.
C7_CancelOnlyDropsPending ==
    [][\A k \in Kinds :
        (ev'.op \in CancelOps /\ ev'.k = k)
            => /\ StoreUnchanged
               /\ <<100, ev'.u>> \in DOMAIN pending[k]
               /\ DOMAIN pending'[k] = (DOMAIN pending[k]) \ {<<100, ev'.u>>}
               /\ \A key \in DOMAIN pending'[k] : pending'[k][key] = pending[k][key]
               /\ \A kk \in Kinds \ {k} : pending'[kk] = pending[kk]]_vars

\* the session that edited record ev.id was cancelled
C7_Witness ==
    /\ ev.op = "schedpay_cancel"
    /\ ev.id \in DOMAIN scheduled["payment"]
    /\ <<100, ev.u>> \notin DOMAIN pending["payment"]

\* C8: a Confirm while the session is at another step than AwaitingConfirm
\* creates or modifies no record and registers no timer.
C8_ConfirmOnlyAtAwaitingConfirm ==
    [][\A k \in Kinds :
        (/\ ev'.op \in ConfirmOps /\ ev'.k = k
         /\ <<100, ev'.u>> \in DOMAIN pending[k]
         /\ pending[k][<<100, ev'.u>>].step # "AwaitingConfirm")
            => StoreUnchanged]_vars

\* C9: a per-record action of a user who is not the creator of the record
\* changes neither the record nor the Wizard Store.
C9_NonCreatorChangesNothing ==
    [][(/\ ev'.op \in RecordOps
        /\ ev'.id \in DOMAIN scheduled[ev'.k]
        /\ scheduled[ev'.k][ev'.id].creator_user_id # ev'.u)
            => scheduled' = scheduled /\ pending' = pending]_vars

\* C10: an input of a user who is not a chat administrator changes neither
\* the Wizard Store nor the Schedule Store.
C10_NonAdminChangesNothing ==
    [][ev'.admin = FALSE => (pending' = pending /\ StoreUnchanged)]_vars

\* what a free-form value has to be for its step to take it
KnownRecipients == {"bob"}
KnownSymbols == {"APT"}
CalendarDates == {DateNames[i] : i \in 1..Len(DateNames)}

\* the step of st took a valid free-form value and moved on to nxt_step
TookValid(st, new) ==
    CASE st.step = "AwaitingRecipient" ->
            /\ new.recipient_username # {}
            /\ new.recipient_username \subseteq KnownRecipients
            /\ new = [st EXCEPT !.recipient_username = new.recipient_username,
                                !.step = "AwaitingToken"]
      [] st.step = "AwaitingToken" ->
            /\ new.symbol # {}
            /\ new.symbol \subseteq KnownSymbols
            /\ new = [st EXCEPT !.symbol = new.symbol, !.decimals = new.decimals,
                                !.step = "AwaitingAmount"]
      [] st.step = "AwaitingAmount" ->
            /\ new.amount_display # {}
            /\ \A a \in new.amount_display : a > 0
            /\ new = [st EXCEPT !.amount_display = new.amount_display,
                                !.step = "AwaitingDate"]
      [] st.step = "AwaitingDate" ->
            /\ new.date # {}
            /\ new.date \subseteq CalendarDates
            /\ new = [st EXCEPT !.date = new.date, !.step = "AwaitingHour"]
      [] OTHER -> FALSE

BackOps == {"sched_back", "schedpay_back"}

StepsOf(k) == IF k = "payment" THEN PaymentSteps ELSE PromptSteps

\* the fields of the wizard state each step collects
FieldsOf(k) ==
    IF k = "payment"
    THEN [AwaitingRecipient |-> {"recipient_username"},
          AwaitingToken |-> {"symbol", "decimals"},
          AwaitingAmount |-> {"amount_display"},
          AwaitingDate |-> {"date"},
          AwaitingHour |-> {"hour_utc"},
          AwaitingMinute |-> {"minute_utc"},
          AwaitingRepeat |-> {"repeat", "weekly_weeks"},
          AwaitingConfirm |-> {}]
    ELSE [AwaitingPrompt |-> {"prompt"},
          AwaitingImage |-> {"image_url"},
          AwaitingHour |-> {"hour_utc"},
          AwaitingMinute |-> {"minute_utc"},
          AwaitingRepeat |-> {"repeat"},
          AwaitingConfirm |-> {}]

\* new is old one step back: the fields of the step it is now at and of
\* the later steps are empty, the others are as they were
WentBack(k, old, new) ==
    LET steps == StepsOf(k)
        i == StepIndex(steps, old.step)
        cleared == UNION {FieldsOf(k)[steps[j]] : j \in (i - 1)..Len(steps)}
    IN  /\ i > 1
        /\ DOMAIN new = DOMAIN old
        /\ new.step = steps[i - 1]
        /\ \A f \in (DOMAIN old) \ {"step"} :
                new[f] = IF f \in cleared THEN None ELSE old[f]

\* the step changed at most the pending state of (group, ev'.u) of kind k
OnlySession(k) ==
    /\ DOMAIN pending'[k] = DOMAIN pending[k]
    /\ \A key \in (DOMAIN pending[k]) \ {<<100, ev'.u>>} :
            pending'[k][key] = pending[k][key]
    /\ \A kk \in Kinds \ {k} : pending'[kk] = pending[kk]

\* C18: Back sets the step of the session to its predecessor and empties
\* the fields of the step it arrives at and of every later step; the fields
\* of the earlier steps and the id of the record the session edits keep
\* their values.  Back at the first step, and a Back whose message could
\* not be sent, leave the session as it is.  The Schedule Store is not
\* touched.
C18_BackClearsFromPredecessor ==
    [][\A k \in Kinds :
        (ev'.op \in BackOps /\ ev'.k = k)
            => /\ StoreUnchanged
               /\ <<100, ev'.u>> \in DOMAIN pending[k]
               /\ OnlySession(k)
               /\ LET old == pending[k][<<100, ev'.u>>]
                      new == pending'[k][<<100, ev'.u>>]
                  IN  IF StepIndex(StepsOf(k), old.step) = 1 \/ ~ev'.ok
                      THEN new = old
                      ELSE WentBack(k, old, new)]_vars

\* Back from the date step of a payment session: the session is at the
\* amount step, has lost its amount and still has its recipient and token
C18_Witness ==
    /\ ev.op = "schedpay_back"
    /\ ev.ok
    /\ <<100, ev.u>> \in DOMAIN pending["payment"]
    /\ pending["payment"][<<100, ev.u>>].step = "AwaitingAmount"
    /\ pending["payment"][<<100, ev.u>>].recipient_username = {"bob"}
    /\ pending["payment"][<<100, ev.u>>].symbol = {"APT"}
    /\ pending["payment"][<<100, ev.u>>].amount_display = {}

C20_ConfirmConsumesPending ==
    [][\A k \in Kinds :
        (ev'.op \in ConfirmOps /\ ev'.k = k)
            => /\ <<100, ev'.u>> \notin DOMAIN pending'[k]
               /\ Cardinality((DOMAIN scheduled'[k]) \ (DOMAIN scheduled[k])) <= 1
               /\ scheduled'[OtherKind(k)] = scheduled[OtherKind(k)]
               /\ <<100, ev'.u>> \notin DOMAIN pending[k]
                    => pending' = pending /\ StoreUnchanged]_vars

\* the second Confirm of the session whose first Confirm created the only
\* prompt of the run
C20_Witness ==
    /\ ev.op = "sched_confirm"
    /\ ~ev.ok
    /\ others["prompt"].active = PROMPT_CAP - 1
    /\ Cardinality(Created("prompt")) = 1
    /\ <<100, ev.u>> \notin DOMAIN pending["prompt"]
    /\ ev.u \in {scheduled["prompt"][id].creator_user_id : id \in Created("prompt")}

\* the step at which each button of the wizards is offered
ButtonStep ==
    [sched_skip_image |-> "AwaitingImage", sched_hour |-> "AwaitingHour",
     sched_min |-> "AwaitingMinute", sched_repeat |-> "AwaitingRepeat",
     schedpay_hour |-> "AwaitingHour", schedpay_min |-> "AwaitingMinute",
     schedpay_repeat |-> "AwaitingRepeat"]

\* the inputs that move a session forward
ForwardOps == (DOMAIN ButtonStep) \cup {"pay_message", "prompt_message", "prompt_photo"}

\* C26: every forward transition of a wizard moves step to its immediate
\* successor in the step order of the kind; a skip-image, hour, minute or
\* repeat button pressed while the session is at another step than the one
\* that offers it changes neither the step nor any field.
C26_ForwardToSuccessorOnly ==
    [][\A k \in Kinds :
        (ev'.op \in ForwardOps /\ ev'.k = k /\ <<100, ev'.u>> \in DOMAIN pending[k])
            => /\ <<100, ev'.u>> \in DOMAIN pending'[k]
               /\ LET old == pending[k][<<100, ev'.u>>]
                      new == pending'[k][<<100, ev'.u>>]
                      i == StepIndex(StepsOf(k), old.step)
                  IN  \/ new = old
                      \/ /\ i < Len(StepsOf(k))
                         /\ new.step = StepsOf(k)[i + 1]
                         /\ ev'.op \in DOMAIN ButtonStep => old.step = ButtonStep[ev'.op]]_vars

\* C29: a Confirm that does not succeed (no record persisted, no timer
\* registered, as when the quota rejects it) leaves the pending state of
\* the session in the Wizard Store: the pending state is deleted only once
\* the record is persisted and registered.
C29_PendingKeptUntilRegistered ==
    [][\A k \in Kinds :
        (/\ ev'.op \in ConfirmOps /\ ev'.k = k
         /\ <<100, ev'.u>> \in DOMAIN pending[k]
         /\ StoreUnchanged)
            => pending' = pending]_vars

\* C37: a step taken for user u changes no pending state but that of
\* (group, u): the sessions of every other user are there or not as
\* before, with the contents they had.
C37_OnlyOwnPendingState ==
    [][\A k \in Kinds :
        \A key \in ((DOMAIN pending[k]) \cup (DOMAIN pending'[k])) \ {<<100, ev'.u>>} :
            /\ key \in DOMAIN pending[k]
            /\ key \in DOMAIN pending'[k]
            /\ pending'[k][key] = pending[k][key]]_vars

-----------------------------------------------------------------------------
(* Properties of the enumeration of a schedule tree (SpecList) *)

\* the entries of the tree whose bytes decode as a record of their kind: a
\* record in the current format, and for the prompts one in the legacy format
Decodes(k, entry) ==
    entry.format = "new" \/ (k = "prompt" /\ entry.format = "legacy")

\* C40: list_schedules_for_group(g) returns exactly the stored records
\* that decode, have group_id = g and are active, each of them once; an
\* entry that does not decode is left out and the entries after it are
\* still returned.
C40_ListReturnsDecodableActive ==
    calc.pc = "listed"
        => /\ {calc.out[j].id : j \in 1..Len(calc.out)}
                = {i \in 1..Len(calc.tree) :
                    /\ Decodes(calc.k, calc.tree[i])
                    /\ calc.tree[i].group_id = calc.group_id
                    /\ calc.tree[i].active}
           /\ \A j \in 1..Len(calc.out) :
                /\ calc.out[j].group_id = calc.group_id
                /\ calc.out[j].active
                /\ \A j2 \in 1..Len(calc.out) : calc.out[j2].id = calc.out[j].id => j2 = j

\* the tree holds bytes that do not decode ahead of an active record of the
\* group and a record of another group: the list is that record and no other
C40_Witness ==
    /\ calc.pc = "listed"
    /\ Len(calc.tree) = 3
    /\ ~Decodes(calc.k, calc.tree[1])
    /\ calc.tree[2].group_id # calc.group_id /\ Decodes(calc.k, calc.tree[2])
    /\ Len(calc.out) = 1
    /\ calc.out[1].id = 3

-----------------------------------------------------------------------------
(* Properties of the buttons on callback data of any kind (SpecButton) *)

\* the data is one of the options the keyboard of the button offers
OfferedData(b, data) ==
    CASE b \in {"schedpay_hour", "sched_hour"} -> data # {} /\ \A h \in data : h \in 0..23
      [] b \in {"schedpay_min", "sched_min"} -> data # {} /\ \A m \in data : m \in 0..59
      [] b = "schedpay_repeat" -> data \in {"1d", "1w", "2w", "4w"}
      [] b = "sched_repeat" ->
            data \in {"none", "5m", "15m", "30m", "45m", "1h", "3h", "6h", "12h",
                      "1d", "1w", "1mo"}

\* C36: a button callback whose data is unparsable, out of range or no
\* offered option stores nothing and does not advance the step, and every
\* hour a pending state holds is in 0..23 and every minute in 0..59.
C36_ButtonDataValidated ==
    [][ev'.op \in DOMAIN ButtonData
        => /\ ~OfferedData(ev'.op, ev'.data) => pending' = pending
           /\ \A k \in Kinds : \A key \in DOMAIN pending'[k] :
                /\ \A h \in pending'[k][key].hour_utc : h \in 0..23
                /\ \A m \in pending'[k][key].minute_utc : m \in 0..59]_vars

-----------------------------------------------------------------------------
(* Properties of a group at its cap (SpecQuota) *)

\* C35: in every reachable state the active records of one kind in the
\* group are at most the ceiling of the kind.
C35_ActiveWithinCeiling ==
    \A k \in Kinds :
        Cardinality(list_schedules_for_group(scheduled, k, 100)) <= Ceiling(k)

\* C38: the Confirm of the creator's edit session of an existing active
\* record is not subject to the quota: whatever the count of active
\* records, the record is stored with the recipient and the repeat of the
\* session and a timer is registered for it.
C38_EditConfirmIgnoresQuota ==
    [][(/\ ev'.op = "schedpay_confirm"
        /\ <<100, ev'.u>> \in DOMAIN pending["payment"]
        /\ pending["payment"][<<100, ev'.u>>].creator_user_id = ev'.u
        /\ \E id \in pending["payment"][<<100, ev'.u>>].schedule_id :
                /\ id \in DOMAIN scheduled["payment"]
                /\ scheduled["payment"][id].active)
        => LET st == pending["payment"][<<100, ev'.u>>]
           IN  \A id \in st.schedule_id :
                /\ st.repeat = {scheduled'["payment"][id].repeat}
                /\ scheduled'["payment"][id].weekly_weeks = st.weekly_weeks
                /\ scheduled'["payment"][id].recipient_username = st.recipient_username
                /\ \E tm \in timers' \ timers : tm.k = "payment" /\ tm.id = id]_vars

-----------------------------------------------------------------------------
(* Properties of the start of the process (SpecStart) *)

\* steps of bootstrap, of the runner and of the clock: every other step is
\* the handling of a wizard command, a wizard message or a callback
EngineOps ==
    {"init", "register", "schedule_jobs", "fire", "claim", "complete", "tick",
     "restart", "calculate", "calculate_next"}

\* C33: on process start, no wizard command, wizard message or callback is
\* processed before bootstrap has completed: when one is processed,
\* register_all_schedules has visited every stored record of both kinds
\* and schedule_jobs has returned.
C33_BootstrapBeforeDispatch ==
    [][ev'.op \notin EngineOps
        => /\ boot.phase = "serving"
           /\ boot.todo = {}
           /\ boot' = boot]_vars

\* a /schedulepayment was handled after bootstrap had registered the active
\* records of both kinds
C33_Witness ==
    /\ ev.op = "schedulepayment" /\ ev.ok
    /\ boot.phase = "serving"
    /\ <<100, ev.u>> \in DOMAIN pending["payment"]
    /\ \E tm \in timers : tm.k = "prompt"
    /\ \E tm \in timers : tm.k = "payment"

-----------------------------------------------------------------------------
(* Properties of pause, resume, delete and run-now over time (SpecLive) *)

\* no firing of the record is under way, and the timers registered for it
\* are within the clock horizon of the model
Settled(k, id) ==
    /\ \A tk \in tasks : ~(tk.k = k /\ tk.id = id)
    /\ \A tm \in timers_of(timers, k, id) : tm.at <= Horizon

\* the creator has just resumed record id, whose next occurrence is within
\* the clock horizon
Resumed(id) ==
    /\ ev.op = "schedpay_toggle" /\ ev.ok /\ ev.id = id
    /\ scheduled["payment"][id].active
    /\ scheduled["payment"][id].next_run_at # {}
    /\ \A n \in scheduled["payment"][id].next_run_at : n <= Horizon
    /\ Settled("payment", id)

\* the creator has just paused or deleted record id
PausedOrDeleted(id) ==
    /\ ev.op \in {"schedpay_toggle", "schedpay_delete"} /\ ev.ok /\ ev.id = id
    /\ ~scheduled["payment"][id].active

\* a firing has just claimed record id and invoked its executor
Executed(id) == ev.op = "claim" /\ ev.k = "payment" /\ ev.id = id

\* C31: a record that was paused and is resumed is eventually executed,
\* unless it is paused or deleted again first, also when its timer fired
\* and did nothing while the record was paused.
C31_ResumedIsExecuted ==
    \A id \in {1} : Resumed(id) ~> (Executed(id) \/ PausedOrDeleted(id))

\* the creator's run-now has just been written on record id, which is
\* active and not locked
RanNow(id) ==
    /\ ev.op = "schedpay_runnow" /\ ev.ok /\ ev.id = id
    /\ scheduled["payment"][id].active
    /\ scheduled["payment"][id].locked_until = {}
    /\ scheduled["payment"][id].next_run_at = {now}
    /\ Settled("payment", id)

\* C32: after run-now on an active record that is not locked, the record
\* is eventually executed, unless it is paused or deleted first.
C32_RunNowIsExecuted ==
    \A id \in {1} : RanNow(id) ~> (Executed(id) \/ PausedOrDeleted(id))

\* the creator's delete of record id has just been written
Deleted(id) ==
    /\ ev.op = "schedpay_delete" /\ ev.ok /\ ev.id = id
    /\ id \in DOMAIN scheduled["payment"]

\* C39: once a record was deleted it is never active again and no firing
\* claims it again, whatever owner action or timer fire follows.
C39_DeletedStaysDeleted ==
    \A id \in {1} :
        [](Deleted(id) => [](~scheduled["payment"][id].active /\ ~Executed(id)))

====
